---- MODULE Spec2Model ----
(***************************************************************************)
(* A model of the parsing pipeline of gorgo/lr: the Earley recognizer      *)
(* (lr/earley), its derivation walker and tree builder, and the SLR(1)     *)
(* table generator (lr/tables.go) with the SLR parser (lr/slr).            *)
(*                                                                         *)
(* Grammar symbols are identified with their integer Value: terminals      *)
(* carry their token type, non-terminals a value >= NonTermType.  An item  *)
(* is a record [rule, dot, Origin]; rule is the serial number of the rule. *)
(* Sets of items (iteratable.Set) are sequences without duplicates, in     *)
(* insertion order.  Go slices indexed from 0 are TLA+ sequences indexed   *)
(* from 1: p.states[k] is states[k+1], rule k is Grammars[g][k+1].         *)
(***************************************************************************)
EXTENDS Integers, Sequences, FiniteSets, TLC

\* ------------------------------------------------------------------------
\* Bounds of the model
\* ------------------------------------------------------------------------
MaxLen == 3       \* longest input, in tokens before EOF
MaxParses == 2    \* Parse calls made on one Earley parser
MaxErrPos == 1    \* the scanner may report an error at NextToken call 1..MaxErrPos
MaxStack == 8     \* deepest SLR parse stack explored
MaxCalls == 3               \* calls a client makes on one sppf.Forest
MaxItems == 2               \* items in an argument of closureSet
MaxDepth == 3               \* height of the derivation trees a client builds a forest of
MaxMoves == 4               \* moves a client makes with one sppf.Cursor
Positions == {0, 1, 4, 122} \* input positions the client's nodes start and end at

\* ------------------------------------------------------------------------
\* Program constants
\* ------------------------------------------------------------------------
EOF == -1                   \* scanner.EOF = text/scanner.EOF
ShiftAction == -1
AcceptAction == -2
optionStoreTokens == 2      \* 1 << 1
optionGenerateTree == 4     \* 1 << 2
NonTermType == 1000         \* symbols with a Value below it are terminals
NilSym == 0                 \* the nil *Symbol (PeekSymbol of a reducible item)
U64Wrap == 1000000          \* stands for 2^64-1, the result of 0-1 on a uint64

\* Op applied to the value of v: a local variable assigned once and read
\* several times (v is evaluated once, as the assignment is executed once)
With(v, Op(_)) == CHOOSE r \in {Op(val) : val \in {v}} : TRUE

\* ------------------------------------------------------------------------
\* Grammars.  Rule 0 is the wrapper rule S' -> S #eof added by the builder.
\* ------------------------------------------------------------------------
SPrime == NonTermType
nS == NonTermType + 1
nA == NonTermType + 2
nB == NonTermType + 2 + 1
ta == 1
tb == 2
tc == 2 + 1

\* the terminals a scanner may deliver besides EOF
Toks == {ta, tb, tc}

R(lhs, rhs) == [LHS |-> lhs, rhs |-> rhs]

Grammars ==
  << \* 1: S -> a
     << R(SPrime, <<nS, EOF>>), R(nS, <<ta>>) >>,
     \* 2: S -> a | eps
     << R(SPrime, <<nS, EOF>>), R(nS, <<ta>>), R(nS, <<>>) >>,
     \* 3: S -> A a ; A -> b | c | eps
     << R(SPrime, <<nS, EOF>>), R(nS, <<nA, ta>>), R(nA, <<tb>>), R(nA, <<tc>>),
        R(nA, <<>>) >>,
     \* 4: S -> S b a | a              (left recursive)
     << R(SPrime, <<nS, EOF>>), R(nS, <<nS, tb, ta>>), R(nS, <<ta>>) >>,
     \* 5: S -> a S | a                (right recursive)
     << R(SPrime, <<nS, EOF>>), R(nS, <<ta, nS>>), R(nS, <<ta>>) >>,
     \* 6: S -> b S | S c S | a        (ambiguous)
     << R(SPrime, <<nS, EOF>>), R(nS, <<tb, nS>>), R(nS, <<nS, tc, nS>>),
        R(nS, <<ta>>) >>,
     \* 7: S -> A B ; A -> a | eps ; B -> b | eps
     << R(SPrime, <<nS, EOF>>), R(nS, <<nA, nB>>), R(nA, <<ta>>), R(nA, <<>>),
        R(nB, <<tb>>), R(nB, <<>>) >>,
     \* 8: S -> A A ; A -> a | eps     (ambiguous, nullable)
     << R(SPrime, <<nS, EOF>>), R(nS, <<nA, nA>>), R(nA, <<ta>>), R(nA, <<>>) >>,
     \* 9: S -> A a ; A -> S b | c    (indirectly left recursive)
     << R(SPrime, <<nS, EOF>>), R(nS, <<nA, ta>>), R(nA, <<nS, tb>>), R(nA, <<tc>>) >>,
     \* 10: S -> A | a b ; A -> a b   (ambiguous: a shorter and a longer rule for one span)
     << R(SPrime, <<nS, EOF>>), R(nS, <<nA>>), R(nS, <<ta, tb>>), R(nA, <<ta, tb>>) >>,
     \* 11: S -> A | a ; A -> S       (ambiguous: a cycle S => A => S)
     << R(SPrime, <<nS, EOF>>), R(nS, <<nA>>), R(nS, <<ta>>), R(nA, <<nS>>) >>
  >>

GrammarIds == 1..Len(Grammars)

\* Grammar.Rule(k)
Rule(g, k) == Grammars[g][k + 1]
NumRules(g) == Len(Grammars[g])
RuleIds(g) == 0..(NumRules(g) - 1)

IsTerminal(A) == A < NonTermType

NonTerms(g) == {Rule(g, k).LHS : k \in RuleIds(g)}

\* ------------------------------------------------------------------------
\* iteratable.Set: an insertion-ordered set
\* ------------------------------------------------------------------------
Contains(S, e) == \E k \in 1..Len(S) : S[k] = e

SetAdd(S, e) == IF Contains(S, e) THEN S ELSE Append(S, e)

RECURSIVE SetUnion(_, _)
SetUnion(S, es) ==
  IF es = <<>> THEN S ELSE With(SetAdd(S, Head(es)), LAMBDA S1 : SetUnion(S1, Tail(es)))

SetDifference(S, T) == SelectSeq(S, LAMBDA e : ~Contains(T, e))

SetEquals(S, T) == {S[k] : k \in 1..Len(S)} = {T[k] : k \in 1..Len(T)}

\* ------------------------------------------------------------------------
\* lr.Item
\* ------------------------------------------------------------------------
Item(k, d, j) == [rule |-> k, dot |-> d, Origin |-> j]

StartItem(k) == Item(k, 0, 0)

PeekSymbol(g, item) ==
  LET rhs == Rule(g, item.rule).rhs
  IN  IF item.dot < Len(rhs) THEN rhs[item.dot + 1] ELSE NilSym

Advance(item) == [item EXCEPT !.dot = item.dot + 1]

Prefix(g, item) == SubSeq(Rule(g, item.rule).rhs, 1, item.dot)

\* Grammar.FindNonTermRules(B, true): the start items of all rules of B
RECURSIVE StartItemsFrom(_, _, _)
StartItemsFrom(g, B, k) ==
  IF k >= NumRules(g) THEN <<>>
  ELSE IF Rule(g, k).LHS = B
       THEN <<StartItem(k)>> \o StartItemsFrom(g, B, k + 1)
       ELSE StartItemsFrom(g, B, k + 1)

FindNonTermRules(g, B) == StartItemsFrom(g, B, 0)

\* ------------------------------------------------------------------------
\* LRAnalysis: nullable non-terminals (fixed point)
\* ------------------------------------------------------------------------
RECURSIVE NullableFix(_, _)
NullableFix(g, N) ==
  LET N2 == N \cup {Rule(g, k).LHS : k \in
                      {r \in RuleIds(g) :
                         \A p \in 1..Len(Rule(g, r).rhs) : Rule(g, r).rhs[p] \in N}}
  IN  IF N2 = N THEN N ELSE NullableFix(g, N2)

NullableOf == [g \in GrammarIds |-> NullableFix(g, {})]

DerivesEpsilon(g, B) == B \in NullableOf[g]


\* ------------------------------------------------------------------------
\* LRAnalysis: FIRST and FOLLOW (fixed points)
\* ------------------------------------------------------------------------
\* FIRST of the symbols rhs[k..], given FIRST of the non-terminals
RECURSIVE FirstOfSeq(_, _, _, _)
FirstOfSeq(g, F, rhs, k) ==
  IF k > Len(rhs) THEN {}
  ELSE IF IsTerminal(rhs[k]) THEN {rhs[k]}
  ELSE F[rhs[k]] \cup (IF DerivesEpsilon(g, rhs[k]) THEN FirstOfSeq(g, F, rhs, k + 1) ELSE {})

\* do the symbols rhs[k..] derive epsilon ?
NullableSeq(g, rhs, k) == \A p \in k..Len(rhs) : DerivesEpsilon(g, rhs[p])

RECURSIVE FirstFix(_, _)
FirstFix(g, F) ==
  LET F2 == [A \in NonTerms(g) |->
               F[A] \cup UNION {FirstOfSeq(g, F, Rule(g, k).rhs, 1) :
                                  k \in {r \in RuleIds(g) : Rule(g, r).LHS = A}}]
  IN  IF F2 = F THEN F ELSE FirstFix(g, F2)

FirstOf == [g \in GrammarIds |-> FirstFix(g, [A \in NonTerms(g) |-> {}])]

\* the places <<rule, position>> where B occurs in a right-hand side
Occurrences(g, B) ==
  UNION {{<<k, p>> : p \in {q \in 1..Len(Rule(g, k).rhs) : Rule(g, k).rhs[q] = B}} :
           k \in RuleIds(g)}

RECURSIVE FollowFix(_, _)
FollowFix(g, Fo) ==
  LET Fo2 == [B \in NonTerms(g) |->
                Fo[B] \cup UNION {
                  FirstOfSeq(g, FirstOf[g], Rule(g, occ[1]).rhs, occ[2] + 1)
                    \cup (IF NullableSeq(g, Rule(g, occ[1]).rhs, occ[2] + 1)
                          THEN Fo[Rule(g, occ[1]).LHS] ELSE {}) :
                  occ \in Occurrences(g, B)}]
  IN  IF Fo2 = Fo THEN Fo ELSE FollowFix(g, Fo2)

FollowOf == [g \in GrammarIds |->
               FollowFix(g, [A \in NonTerms(g) |-> IF A = SPrime THEN {EOF} ELSE {}])]

\* LRAnalysis.Follow(A)
Follow(g, A) == FollowOf[g][A]

\* Grammar.EachSymbol: the symbols of the grammar, in ascending order of Value
RECURSIVE SortedSeq(_)
SortedSeq(V) ==
  IF V = {} THEN <<>>
  ELSE LET m == CHOOSE v \in V : \A w \in V : v <= w
       IN  <<m>> \o SortedSeq(V \ {m})

Symbols(g) ==
  SortedSeq(NonTerms(g) \cup
            UNION {{Rule(g, k).rhs[p] : p \in 1..Len(Rule(g, k).rhs)} : k \in RuleIds(g)})

\* Grammar.matchesRHS(lhs, prefix): the serial of the first rule lhs -> prefix, or -1
RECURSIVE matchesRHSFrom(_, _, _, _)
matchesRHSFrom(g, lhs, prefix, k) ==
  IF k >= NumRules(g) THEN -1
  ELSE IF Rule(g, k).LHS = lhs /\ Rule(g, k).rhs = prefix THEN k
  ELSE matchesRHSFrom(g, lhs, prefix, k + 1)

matchesRHS(g, lhs, prefix) == matchesRHSFrom(g, lhs, prefix, 0)

\* ------------------------------------------------------------------------
\* Closure and goto-set operations
\* ------------------------------------------------------------------------
\* the loop of closureSet: C is iterated once while it grows
RECURSIVE closureLoop(_, _, _)
closureLoop(g, C, k) ==
  IF k > Len(C) THEN C
  ELSE LET A == PeekSymbol(g, C[k])
       IN  IF A # NilSym /\ ~IsTerminal(A)
           THEN With(SetDifference(FindNonTermRules(g, A), C), LAMBDA New :
                With(IF New # <<>> THEN SetUnion(C, New) ELSE C, LAMBDA C1 :
                  closureLoop(g, C1, k + 1)))
           ELSE closureLoop(g, C, k + 1)

\* closureSet iterating over its argument S instead of the growing copy C
RECURSIVE closureOverArgument(_, _, _, _)
closureOverArgument(g, S, C, k) ==
  IF k > Len(S) THEN C
  ELSE With(PeekSymbol(g, S[k]), LAMBDA A :
       closureOverArgument(g, S,
                           IF A # NilSym /\ ~IsTerminal(A)
                           THEN SetUnion(C, SetDifference(FindNonTermRules(g, A), C))
                           ELSE C,
                           k + 1))

closureSetOverArgument(g, S) == closureOverArgument(g, S, S, 1)

closureSet(g, S) == closureLoop(g, S, 1)

closure(g, item) == closureSet(g, <<item>>)

\* the loop of gotoSet over closure.Values()
RECURSIVE gotoLoop(_, _, _, _, _)
gotoLoop(g, cl, A, k, gotoset) ==
  IF k > Len(cl) THEN gotoset
  ELSE With(IF PeekSymbol(g, cl[k]) = A THEN SetAdd(gotoset, Advance(cl[k])) ELSE gotoset,
            LAMBDA gs : gotoLoop(g, cl, A, k + 1, gs))

gotoSet(g, cl, A) == gotoLoop(g, cl, A, 1, <<>>)

gotoSetClosure(g, iset, A) == closureSet(g, gotoSet(g, iset, A))

\* ------------------------------------------------------------------------
\* CFSM construction.  A CFSM is a record: states[ID+1] holds the items of
\* state ID, edges the list of edges, Accept the IDs of the accepting states
\* ------------------------------------------------------------------------
isErrorState(items) == Len(items) = 0

containsCompletedStartRule(g, items) ==
  \E k \in 1..Len(items) : items[k].rule = 0 /\ PeekSymbol(g, items[k]) = NilSym

\* the ID of the first state with the given items, -1 if there is none
RECURSIVE findStateFrom(_, _, _)
findStateFrom(c, iset, k) ==
  IF k > Len(c.states) THEN -1
  ELSE IF SetEquals(c.states[k], iset) THEN k - 1
  ELSE findStateFrom(c, iset, k + 1)

findStateByItems(c, iset) == findStateFrom(c, iset, 1)

addState(c, iset) ==
  IF findStateByItems(c, iset) = -1 THEN [c EXCEPT !.states = Append(c.states, iset)] ELSE c

\* addEdge with source and target state exchanged
addEdgeReversed(c, s0, s1, sym) ==
  [c EXCEPT !.edges = Append(c.edges, [from |-> s1, to |-> s0, label |-> sym])]

addEdge(c, s0, s1, sym) ==
  [c EXCEPT !.edges = Append(c.edges, [from |-> s0, to |-> s1, label |-> sym])]

allEdges(c, s) == SelectSeq(c.edges, LAMBDA e : e.from = s)

\* the callback handed to EachSymbol by buildCFSM, for the symbols from the
\* k-th on: the new <<cfsm, S>>
RECURSIVE EachSymbolGoto(_, _, _, _, _)
EachSymbolGoto(g, c, S, s, k) ==
  IF k > Len(Symbols(g)) THEN <<c, S>>
  ELSE
  With(Symbols(g)[k], LAMBDA A :
  With(gotoSetClosure(g, c.states[s + 1], A), LAMBDA gotoset :
  With(findStateByItems(c, gotoset), LAMBDA found :
  With(IF found = -1 THEN addState(c, gotoset) ELSE c, LAMBDA c1 :
    LET isNew == found = -1
        snew == IF isNew THEN Len(c.states) ELSE found
        acc == isNew /\ ~isErrorState(gotoset) /\ containsCompletedStartRule(g, gotoset)
    IN
    With(IF acc THEN [c1 EXCEPT !.Accept = c1.Accept \cup {snew}] ELSE c1, LAMBDA c2 :
    With(IF ~isErrorState(gotoset) THEN addEdge(c2, s, snew, A) ELSE c2, LAMBDA c3 :
      EachSymbolGoto(g, c3, IF isNew /\ ~isErrorState(gotoset) THEN S \cup {snew} ELSE S,
                     s, k + 1)))))))

\* the loop of buildCFSM over the work set S, lowest state ID first
RECURSIVE cfsmLoop(_, _, _)
cfsmLoop(g, c, S) ==
  IF S = {} THEN c
  ELSE With(CHOOSE v \in S : \A w \in S : v <= w, LAMBDA s :
       With(EachSymbolGoto(g, c, S \ {s}, s, 1), LAMBDA r : cfsmLoop(g, r[1], r[2])))

buildCFSM(g) ==
  cfsmLoop(g, [states |-> <<closure(g, StartItem(0))>>, edges |-> <<>>, Accept |-> {}], {0})

CFSM == [g \in GrammarIds |-> buildCFSM(g)]

\* ------------------------------------------------------------------------
\* Parser tables
\* ------------------------------------------------------------------------
DefaultNullValue == -(2147483647) - 1

\* sparse.IntMatrix: the list of triplets, sorted by (row, col); the value of
\* a triplet is a pair <<a, b>>
newIntPair(a, b) == <<a, b>>

\* addIntValue that replaces the value held instead of adding a second one
addIntValueReplace(v, n) == <<n, v[2]>>

addIntValue(v, n) ==
  IF v[1] = DefaultNullValue THEN <<n, v[2]>>
  ELSE IF v[2] = DefaultNullValue THEN <<v[1], n>>
  ELSE <<v[1], n>>

storedLeftOf(t, row, col) == t.row < row \/ (t.row = row /\ t.col < col)

storedAt(t, row, col) == t.row = row /\ t.col = col

\* the index of the first triplet not stored left of (row, col)
RECURSIVE skipLesser(_, _, _, _)
skipLesser(values, row, col, k) ==
  IF k > Len(values) THEN k
  ELSE IF ~storedLeftOf(values[k], row, col) THEN k
  ELSE skipLesser(values, row, col, k + 1)

Values(values, row, col) ==
  With(skipLesser(values, row, col, 1), LAMBDA k :
    IF k <= Len(values) /\ storedAt(values[k], row, col) THEN values[k].value
    ELSE <<DefaultNullValue, DefaultNullValue>>)

Value(values, row, col) == Values(values, row, col)[1]

setOrAdd(values, row, col, value, doAdd) ==
  With(skipLesser(values, row, col, 1), LAMBDA at :
    IF at <= Len(values) /\ storedAt(values[at], row, col)
    THEN [values EXCEPT ![at].value =
            IF doAdd THEN addIntValue(values[at].value, value)
            ELSE newIntPair(value, DefaultNullValue)]
    ELSE SubSeq(values, 1, at - 1)
           \o <<[row |-> row, col |-> col, value |-> newIntPair(value, DefaultNullValue)]>>
           \o SubSeq(values, at, Len(values)))

\* lr.Table: a matrix with a column offset
TableAdd(t, row, tt, val) ==
  [t EXCEPT !.matrix = setOrAdd(t.matrix, row, tt - t.mincol, val, TRUE)]

\* Table.set without the column offset
TableSetNoOffset(t, row, tt, val) ==
  [t EXCEPT !.matrix = setOrAdd(t.matrix, row, tt, val, FALSE)]

TableSet(t, row, tt, val) ==
  [t EXCEPT !.matrix = setOrAdd(t.matrix, row, tt - t.mincol, val, FALSE)]

TableValues(t, row, tt) == Values(t.matrix, row, tt - t.mincol)

TableValue(t, row, tt) == Value(t.matrix, row, tt - t.mincol)

\* the search for the lowest and highest token type: <<mintok, maxtok>>
RECURSIVE MinMaxTok(_, _, _)
MinMaxTok(syms, k, mm) ==
  IF k > Len(syms) THEN mm
  ELSE With(IF syms[k] > mm[2] THEN <<mm[1], syms[k]>>
            ELSE IF syms[k] < mm[1] THEN <<syms[k], mm[2]>>
            ELSE mm,
            LAMBDA mm1 : MinMaxTok(syms, k + 1, mm1))

EmptyTable(g) == [matrix |-> <<>>, mincol |-> MinMaxTok(Symbols(g), 1, <<0, 0>>)[1]]


\* BuildGotoTable: for every state, for every edge leaving it, an entry
RECURSIVE gotoEdges(_, _, _, _)
gotoEdges(t, s, edges, k) ==
  IF k > Len(edges) THEN t
  ELSE With(TableSet(t, s, edges[k].label, edges[k].to), LAMBDA t1 :
            gotoEdges(t1, s, edges, k + 1))

RECURSIVE gotoStates(_, _, _)
gotoStates(c, t, s) ==
  IF s >= Len(c.states) THEN t
  ELSE With(gotoEdges(t, s, allEdges(c, s), 1), LAMBDA t1 : gotoStates(c, t1, s + 1))

BuildGotoTable(g) == gotoStates(CFSM[g], EmptyTable(g), 0)

\* the action for a terminal after the dot
pT(terminal) == IF terminal = EOF THEN AcceptAction ELSE ShiftAction

\* buildActionTable, SLR(1) case.  An action table under construction is a
\* record [t, hasConflicts].
\* the shift entry for an item with terminal A after the dot
shiftEntry(at, s, A) ==
  With(TableValue(at.t, s, A), LAMBDA a1 :
    IF a1 # DefaultNullValue
    THEN IF a1 = ShiftAction THEN at
         ELSE [t |-> TableAdd(at.t, s, A, pT(A)), hasConflicts |-> TRUE]
    ELSE [at EXCEPT !.t = TableAdd(at.t, s, A, pT(A))])

\* the reduce entries for rule inx, one per lookahead of las[k..]
RECURSIVE reduceEntries(_, _, _, _, _)
reduceEntries(at, s, inx, las, k) ==
  IF k > Len(las) THEN at
  ELSE With(TableValues(at.t, s, las[k]), LAMBDA v :
       With([t |-> TableAdd(at.t, s, las[k], inx),
             hasConflicts |-> at.hasConflicts \/ v[1] # DefaultNullValue
                                              \/ v[2] # DefaultNullValue],
            LAMBDA at1 : reduceEntries(at1, s, inx, las, k + 1)))

\* the body of the loop over the items of a state
actionForItem(g, at, s, item) ==
  With(PeekSymbol(g, item), LAMBDA A :
  With(IF A # NilSym /\ IsTerminal(A) THEN shiftEntry(at, s, A) ELSE at, LAMBDA at1 :
  With(matchesRHS(g, Rule(g, item.rule).LHS, Prefix(g, item)), LAMBDA inx :
    IF A = NilSym /\ inx >= 0
    THEN reduceEntries(at1, s, inx, SortedSeq(Follow(g, Rule(g, inx).LHS)), 1)
    ELSE at1)))

RECURSIVE actionItems(_, _, _, _, _)
actionItems(g, at, s, items, k) ==
  IF k > Len(items) THEN at
  ELSE With(actionForItem(g, at, s, items[k]), LAMBDA nxt :
            actionItems(g, nxt, s, items, k + 1))

RECURSIVE actionStates(_, _, _, _)
actionStates(g, c, at, s) ==
  IF s >= Len(c.states) THEN at
  ELSE With(actionItems(g, at, s, c.states[s + 1], 1), LAMBDA at1 :
            actionStates(g, c, at1, s + 1))

buildActionTable(g) ==
  actionStates(g, CFSM[g], [t |-> EmptyTable(g), hasConflicts |-> FALSE], 0)

\* TableGenerator.CreateTables, once per grammar
gototable == [g \in GrammarIds |-> BuildGotoTable(g)]
actiontable == [g \in GrammarIds |-> buildActionTable(g).t]
HasConflicts == [g \in GrammarIds |-> buildActionTable(g).hasConflicts]

\* buildActionTable, LR(0) case: every entry goes to column 1 of a table
\* without column offset, and no conflict is flagged
lr0ForItem(g, at, s, item) ==
  With(PeekSymbol(g, item), LAMBDA A :
  With(IF A # NilSym /\ IsTerminal(A)
       THEN [at EXCEPT !.t = TableAdd(at.t, s, 1, pT(A))] ELSE at, LAMBDA at1 :
  With(matchesRHS(g, Rule(g, item.rule).LHS, Prefix(g, item)), LAMBDA inx :
    IF A = NilSym /\ inx >= 0
    THEN [at1 EXCEPT !.t = TableAdd(at1.t, s, 1, inx)]
    ELSE at1)))

RECURSIVE lr0Items(_, _, _, _, _)
lr0Items(g, at, s, items, k) ==
  IF k > Len(items) THEN at
  ELSE With(lr0ForItem(g, at, s, items[k]), LAMBDA nxt :
            lr0Items(g, nxt, s, items, k + 1))

RECURSIVE lr0States(_, _, _, _)
lr0States(g, c, at, s) ==
  IF s >= Len(c.states) THEN at
  ELSE With(lr0Items(g, at, s, c.states[s + 1], 1), LAMBDA at1 :
            lr0States(g, c, at1, s + 1))

\* TableGenerator.BuildLR0ActionTable for the CFSM c
BuildLR0ActionTable(g, c) ==
  lr0States(g, c, [t |-> [matrix |-> <<>>, mincol |-> 0], hasConflicts |-> FALSE], 0)

\* ------------------------------------------------------------------------
\* sppf.Forest.  Nodes and edges are kept in insertion order; a node pointer
\* is the node's index in its sequence, the nil pointer is 0.  A *lr.Symbol
\* is [Value, ptr]: the symbols of a grammar are one object per Value
\* (ptr = 0), a Symbol allocated at run time is the ptr-th allocation.
\* ------------------------------------------------------------------------
GSym(v) == [Value |-> v, ptr |-> 0]
EpsValue == -2
makeSym(symbol, from, to) == [Symbol |-> symbol, from |-> from, to |-> to]

\* iteratable.Set.FirstMatch: the first element in insertion order that
\* satisfies the predicate, nil (0) when there is none
FirstMatch(S, P(_)) ==
  With({k \in 1..Len(S) : P(S[k])}, LAMBDA m :
       IF m = {} THEN 0 ELSE CHOOSE k \in m : \A j \in m : k <= j)

NewForest ==
  [symbolNodes |-> <<>>, rhsNodes |-> <<>>, orEdges |-> <<>>, andEdges |-> <<>>,
   parent |-> <<>>, root |-> 0, neps |-> 0, panic |-> FALSE]

abs(n) == IF n < 0 THEN -n ELSE n

o == <<107, 401, 353, 223, 811, 569, 619, 173, 433, 757, 811,
       823, 857, 863, 883, 907, 929, 947, 971, 983>>
largePrime == 143743

RECURSIVE sigmaLoop(_, _, _)
sigmaLoop(rhs, k, h) ==
  IF k > Len(rhs) THEN h
  ELSE With(IF abs(rhs[k].Symbol.Value) # 0
            THEN (h * abs(rhs[k].Symbol.Value)) % largePrime
            ELSE h % largePrime, LAMBDA h1 :
       sigmaLoop(rhs, k + 1,
                 (h1 * (o[((rhs[k].from * rhs[k].from) % Len(o)) + 1] + rhs[k].from))
                 % largePrime))

rhsSignature(rhs, start) ==
  IF Len(rhs) = 0 THEN o[(start % Len(o)) + 1] ELSE sigmaLoop(rhs, 1, 817)

\* searchTree.findSymbol: the leaf at (from, to), compared by Symbol pointer
findSymbol(f, from, to, sym) ==
  FirstMatch(f.symbolNodes, LAMBDA s : s.from = from /\ s.to = to /\ s.Symbol = sym)

findSymNode(f, sym, start, end) == findSymbol(f, start, end, sym)

\* the operations below return [f |-> the forest after the call, ret |-> result]
addSymNode(f, sym, start, end) ==
  With(findSymNode(f, sym, start, end), LAMBDA sn :
       IF sn = 0
       THEN [f |-> [f EXCEPT !.symbolNodes = Append(@, makeSym(sym, start, end)),
                             !.parent = Append(@, 0)],
             ret |-> Len(f.symbolNodes) + 1]
       ELSE [f |-> f, ret |-> sn])

\* findRHS with the two keys of the search tree passed in the wrong order
findRHSKeysSwapped(f, start, rule, signature) ==
  FirstMatch(f.rhsNodes, LAMBDA r : r.start = rule /\ r.rule = start /\ r.sigma = signature)

\* searchTree.findRHS: the leaf at (start, rule), compared by sigma
findRHS(f, start, rule, signature) ==
  FirstMatch(f.rhsNodes, LAMBDA r : r.start = start /\ r.rule = rule /\ r.sigma = signature)

findRHSNode(f, rule, rhs, start) == findRHS(f, start, rule, rhsSignature(rhs, start))

addRHSNode(f, rule, rhs, start) ==
  With(findRHSNode(f, rule, rhs, start), LAMBDA node :
       IF node = 0
       THEN [f |-> [f EXCEPT !.rhsNodes =
                       Append(@, [rule |-> rule, start |-> start,
                                  sigma |-> rhsSignature(rhs, start)])],
             ret |-> Len(f.rhsNodes) + 1]
       ELSE [f |-> f, ret |-> node])

\* findOrEdge: the index of the edge, 0 for nullOrEdge, -1 when the type
\* assertion v.(orEdge) fails on the nil that FirstMatch returned
findOrEdge(f, sn, rhs) ==
  IF \E k \in 1..Len(f.orEdges) : f.orEdges[k].fromSym = sn
  THEN With(FirstMatch(f.orEdges, LAMBDA e : e.fromSym = sn /\ e.toRHS = rhs), LAMBDA v :
            IF v = 0 THEN -1 ELSE v)
  ELSE 0

addOrEdge(f, sym, rhs, start, end) ==
  With(addSymNode(f, sym, start, end), LAMBDA a :
  With(findOrEdge(a.f, a.ret, rhs), LAMBDA e :
       IF e = -1 THEN [a.f EXCEPT !.panic = TRUE]
       ELSE IF e = 0
       THEN [a.f EXCEPT !.orEdges = Append(@, [fromSym |-> a.ret, toRHS |-> rhs])]
       ELSE a.f))

findAndEdge(f, rhs, sn) ==
  FirstMatch(f.andEdges, LAMBDA e : e.fromRHS = rhs /\ e.toSym = sn)

\* addAndEdge: ret is the edge returned
addAndEdge(f, rhs, seq, sym, start, end) ==
  With(addSymNode(f, sym, start, end), LAMBDA a :
  With(findAndEdge(a.f, rhs, a.ret), LAMBDA e :
       IF e = 0
       THEN With([fromRHS |-> rhs, toSym |-> a.ret, sequence |-> seq], LAMBDA ne :
                 [f |-> [a.f EXCEPT !.andEdges = Append(@, ne)], ret |-> ne])
       ELSE IF a.f.andEdges[e].sequence # seq
       THEN [f |-> [a.f EXCEPT !.panic = TRUE], ret |-> a.f.andEdges[e]]
       ELSE [f |-> a.f, ret |-> a.f.andEdges[e]]))

\* the loop of AddReduction over the children d = rhs[k] (seq = k - 1); the
\* caller passes the forest's own node where the forest has one for d
RECURSIVE reductionLoop(_, _, _, _, _, _, _)
reductionLoop(f, rhsnode, rhs, k, sym, start, end) ==
  IF f.panic \/ k > Len(rhs) THEN f
  ELSE With(findSymNode(f, rhs[k].Symbol, rhs[k].from, rhs[k].to), LAMBDA d :
       With(addAndEdge(f, rhsnode, k - 1, rhs[k].Symbol, rhs[k].from, rhs[k].to).f, LAMBDA f1 :
            reductionLoop(IF f1.panic \/ d = 0 THEN f1
                          ELSE [f1 EXCEPT !.parent[d] = findSymNode(f1, sym, start, end)],
                          rhsnode, rhs, k + 1, sym, start, end)))

\* Forest.AddReduction(sym, rule, rhs)
AddReduction(f, sym, rule, rhs) ==
  IF Len(rhs) = 0 THEN [f |-> f, ret |-> 0]
  ELSE With(rhs[1].from, LAMBDA start :
       With(rhs[Len(rhs)].to, LAMBDA end :
       With(addRHSNode(f, rule, rhs, rhs[1].from), LAMBDA r :
       With(addOrEdge(r.f, sym, r.ret, start, end), LAMBDA f1 :
       IF f1.panic THEN [f |-> f1, ret |-> 0]
       ELSE With(reductionLoop(f1, r.ret, rhs, 1, sym, start, end), LAMBDA f2 :
            IF f2.panic THEN [f |-> f2, ret |-> 0]
            ELSE With(findSymNode(f2, sym, start, end), LAMBDA symnode :
                 [f |-> IF sym = GSym(SPrime) THEN [f2 EXCEPT !.root = symnode] ELSE f2,
                  ret |-> symnode]))))))

\* Forest.AddEpsilonReduction(sym, rule, pos)
AddEpsilonReduction(f, sym, rule, pos) ==
  With(addRHSNode(f, rule, <<>>, pos), LAMBDA r :
  With(addOrEdge(r.f, sym, r.ret, pos, pos), LAMBDA f1 :
  IF f1.panic THEN [f |-> f1, ret |-> 0]
  ELSE With(findSymNode(f1, sym, pos, pos), LAMBDA symnode :
       With([Value |-> EpsValue, ptr |-> f1.neps + 1], LAMBDA eps :
       With(addAndEdge([f1 EXCEPT !.neps = @ + 1], r.ret, 0, eps, pos, pos), LAMBDA e :
            [f |-> IF sym = GSym(SPrime)
                   THEN [e.f EXCEPT !.parent[e.ret.toSym] = symnode, !.root = symnode]
                   ELSE [e.f EXCEPT !.parent[e.ret.toSym] = symnode],
             ret |-> symnode])))))

\* Forest.AddTerminal(t, pos)
AddTerminal(f, t, pos) == addSymNode(f, t, pos, (pos + 1) % (U64Wrap + 1))

\* ------------------------------------------------------------------------
\* sppf.Cursor.  A cursor is [set, current, stack, inx, panic]: current is
\* the symbol node of c.current, stack holds the child iterators, each
\* the RHS node whose and-edge set it iterates; the position of an iteration
\* is kept by the set itself (inx[rhs], the number of edges delivered since
\* IterateOnce); panic tells that a move ended in a run-time panic.
\* ------------------------------------------------------------------------
LtoR == 1
RtoL == -1
Continue == 0
Break == 1

NilCursor == [set |-> FALSE, current |-> 0, stack |-> <<>>, inx |-> <<>>, panic |-> FALSE]

\* Forest.Root: the root's symbol node, 0 for nil
Root(f) == IF Len(f.symbolNodes) = 0 THEN 0 ELSE f.root

\* Forest.SetCursor(rnode, pruner) with the default pruner
SetCursor(f, rnode) ==
  With(IF rnode = 0 THEN Root(f) ELSE rnode, LAMBDA n :
       IF n = 0 THEN NilCursor
       ELSE [set |-> TRUE, current |-> n, stack |-> <<>>,
             inx |-> [r \in 1..Len(f.rhsNodes) |-> 0], panic |-> FALSE])

\* f.andEdges[rhs]: the and-edges of an RHS node, in insertion order
andEdgesOf(f, rhs) == SelectSeq(f.andEdges, LAMBDA e : e.fromRHS = rhs)

\* Forest.disambiguate with DontCarePruner, which prunes nothing: the RHS
\* node of the first or-edge, 0 for nil
disambiguate(f, sym) ==
  With(SelectSeq(f.orEdges, LAMBDA e : e.fromSym = sym), LAMBDA choices :
       IF Len(choices) = 0 THEN 0 ELSE choices[1].toRHS)

\* Forest.children(rhs): IterateOnce on the edge set
children(f, c, rhs) ==
  IF Len(andEdgesOf(f, rhs)) > 0
  THEN [c |-> [c EXCEPT !.inx[rhs] = 0], ok |-> TRUE]
  ELSE [c |-> c, ok |-> FALSE]

\* a call of the child iterator of rhs: Next and Item on the edge set
childIterator(f, c, rhs) ==
  IF c.inx[rhs] < Len(andEdgesOf(f, rhs))
  THEN [c |-> [c EXCEPT !.inx[rhs] = @ + 1], sym |-> andEdgesOf(f, rhs)[c.inx[rhs] + 1].toSym]
  ELSE [c |-> c, sym |-> 0]

\* Cursor.RHS(sym): the rule and the RuleNodes of the children
RHS(f, c, sym) ==
  With(disambiguate(f, sym), LAMBDA rhs :
       IF rhs = 0 THEN [c |-> c, rule |-> -1, rhsnodes |-> <<>>]
       ELSE [c |-> [c EXCEPT !.inx[rhs] = Len(andEdgesOf(f, rhs))],
             rule |-> f.rhsNodes[rhs].rule,
             rhsnodes |-> [k \in 1..Len(andEdgesOf(f, rhs)) |->
                             [symbol |-> andEdgesOf(f, rhs)[k].toSym, Value |-> <<"nil">>]]])

\* Cursor.Up
Up(f, c) ==
  IF f.parent[c.current] # 0
  THEN IF Len(c.stack) = 0
       THEN [c |-> [c EXCEPT !.current = f.parent[c.current], !.panic = TRUE], ok |-> FALSE]
       ELSE [c |-> [c EXCEPT !.current = f.parent[c.current],
                             !.stack = SubSeq(@, 1, Len(@) - 1)],
             ok |-> TRUE]
  ELSE [c |-> c, ok |-> FALSE]

\* Cursor.Down(dir)
Down(f, c, dir) ==
  With(disambiguate(f, c.current), LAMBDA rhs :
       IF rhs = 0 THEN [c |-> c, ok |-> FALSE]
       ELSE With(children(f, c, rhs), LAMBDA ch :
            IF ~ch.ok THEN [c |-> c, ok |-> FALSE]
            ELSE With(childIterator(f, [ch.c EXCEPT !.stack = Append(@, rhs)], rhs), LAMBDA it :
                 IF it.sym # 0
                 THEN [c |-> [it.c EXCEPT !.current = it.sym], ok |-> TRUE]
                 ELSE [c |-> it.c, ok |-> FALSE])))

\* Cursor.Sibling
Sibling(f, c) ==
  IF Len(c.stack) = 0 THEN [c |-> [c EXCEPT !.panic = TRUE], ok |-> FALSE]
  ELSE With(childIterator(f, c, c.stack[Len(c.stack)]), LAMBDA it :
            IF it.sym # 0
            THEN [c |-> [it.c EXCEPT !.current = it.sym], ok |-> TRUE]
            ELSE [c |-> it.c, ok |-> FALSE])

\* The listener of the traversals: Terminal returns the terminal with its
\* span, ExitRule the symbol, the span of the context and the Values of the
\* RHS nodes, EnterRule returns cont.
TerminalValue(f, n) ==
  <<"t", f.symbolNodes[n].Symbol.Value, f.symbolNodes[n].from, f.symbolNodes[n].to>>

ExitValue(f, n, entered, rhsnodes) ==
  <<"r", f.symbolNodes[n].Symbol.Value, f.symbolNodes[entered].from,
    f.symbolNodes[entered].to, [k \in 1..Len(rhsnodes) |-> rhsnodes[k].Value]>>

\* Cursor.traverseTopDown: the result is [c, value, log]; the log holds an
\* event per listener call.  An Exit event tells the node the rule was
\* entered at, the node ExitRule is called at, the RHS nodes handed to
\* ExitRule and, per child traversed, the child and the value returned.
\* childLoop is the loop over the siblings; i is the index into rhsNodes.
RECURSIVE traverseTopDown(_, _, _, _, _, _)
RECURSIVE childLoop(_, _, _, _, _, _, _, _, _, _)
childLoop(f, c, dir, breakmode, cont, level, rhsnodes, i, log, visited) ==
  With(traverseTopDown(f, c, dir, breakmode, cont, level + 1), LAMBDA t :
    IF t.c.panic
    THEN [c |-> t.c, rhsnodes |-> rhsnodes, log |-> log \o t.log, visited |-> visited]
    ELSE IF i < 0 \/ i >= Len(rhsnodes)           \* rhsNodes[i]: index out of range
    THEN [c |-> [t.c EXCEPT !.panic = TRUE], rhsnodes |-> rhsnodes,
          log |-> log \o t.log, visited |-> visited]
    ELSE With(Sibling(f, t.c), LAMBDA s :
         With([rhsnodes EXCEPT ![i + 1].Value = t.value], LAMBDA rn :
         With(Append(visited, [child |-> c.current, value |-> t.value]), LAMBDA vs :
              IF s.ok /\ ~s.c.panic
              THEN childLoop(f, s.c, dir, breakmode, cont, level, rn, i + dir,
                             log \o t.log, vs)
              ELSE [c |-> s.c, rhsnodes |-> rn, log |-> log \o t.log, visited |-> vs]))))

traverseTopDown(f, c, dir, breakmode, cont, level) ==
  IF IsTerminal(f.symbolNodes[c.current].Symbol.Value)
  THEN [c |-> c, value |-> TerminalValue(f, c.current),
        log |-> <<[ev |-> "Terminal", node |-> c.current]>>]
  ELSE
  With(RHS(f, c, c.current), LAMBDA r :
  With(<<[ev |-> "Enter", node |-> c.current]>>, LAMBDA log0 :
  With(IF cont \/ breakmode = Continue THEN Down(f, r.c, dir)
       ELSE [c |-> r.c, ok |-> FALSE], LAMBDA d :
  With(IF d.ok
       THEN childLoop(f, d.c, dir, breakmode, cont, level, r.rhsnodes,
                      IF dir = RtoL THEN Len(r.rhsnodes) - 1 ELSE 0, log0, <<>>)
       ELSE [c |-> d.c, rhsnodes |-> r.rhsnodes, log |-> log0, visited |-> <<>>], LAMBDA l :
  IF l.c.panic THEN [c |-> l.c, value |-> <<"nil">>, log |-> l.log]
  ELSE
  With(IF d.ok THEN Up(f, l.c).c ELSE l.c, LAMBDA c2 :
  IF c2.panic THEN [c |-> c2, value |-> <<"nil">>, log |-> l.log]
  ELSE [c |-> c2, value |-> ExitValue(f, c2.current, c.current, l.rhsnodes),
        log |-> Append(l.log, [ev |-> "Exit", entered |-> c.current, node |-> c2.current,
                               rhsnodes |-> l.rhsnodes, visited |-> l.visited])])))))

\* Cursor.TopDown
TopDown(f, c, dir, breakmode, cont) == traverseTopDown(f, c, dir, breakmode, cont, 0)

\* the client's records of its last move and its last traversal; downs holds
\* the nodes it moved down from and has not moved up to again, expect the
\* last of them before the move
NoMove ==
  [op |-> "none", dir |-> LtoR, ok |-> FALSE, before |-> NilCursor, n |-> 0, downs |-> <<>>,
   expect |-> 0]

NoTraversal ==
  [done |-> FALSE, dir |-> LtoR, breakmode |-> Continue, cont |-> TRUE, start |-> 0,
   log |-> <<>>, value |-> <<"nil">>]

\* ------------------------------------------------------------------------
\* lr.TableGenerator
\* ------------------------------------------------------------------------
NilCFSM == [states |-> <<>>, edges |-> <<>>, Accept |-> {}]
NilTable == [matrix |-> <<>>, mincol |-> 0]

\* NewTableGenerator: no CFSM and no tables yet
NewTableGenerator ==
  [created |-> FALSE, dfa |-> NilCFSM, gototable |-> NilTable, actiontable |-> NilTable,
   HasConflicts |-> FALSE]

\* ------------------------------------------------------------------------
\* State
\* ------------------------------------------------------------------------
VARIABLES
  gram,      \* the analysed grammar the parsers were created for
  input,     \* the token types the scanner delivers before EOF
  errAt,     \* the NextToken call at which the scanner reports an error (0: none)
  opts,      \* the options NewParser was called with, in their order
  mode,      \* Parser.mode, the set of option flags
  states,    \* Parser.states
  tokens,    \* Parser.tokens (slot 0 is the pre-allocated empty slot)
  sc,        \* Parser.sc
  forest,    \* Parser.forest: TRUE when it holds a forest, FALSE when nil
  pc,        \* where the current Parse call of the Earley parser is
  i,         \* innerLoop: index of the state set being iterated
  cur,       \* innerLoop: position of the iteration in states[i]
  x,         \* token type of the current input symbol
  nread,     \* NextToken calls made by the current Parse call
  accept,    \* named result accept of Parse
  err,       \* named result err of Parse
  parses,    \* Parse calls made on the Earley parser
  stack,     \* slr.Parser.stack
  spc,       \* where the Parse call of the SLR parser is
  stok,      \* SLR: token type of the lookahead
  snread,    \* SLR: NextToken calls made
  saccept,   \* SLR: result accepting
  serr,      \* SLR: result error
  sred,      \* SLR: the last reduce: rule, lookahead span, entries popped, entry pushed
  fo,        \* a sppf.Forest driven directly through its exported functions
  flog,      \* the calls made on fo, with the nodes they returned
  lrgen,     \* a lr.TableGenerator for the grammar
  clo,       \* the last call of closureSet: its argument S and its result C
  lr0,       \* the last result of BuildLR0ActionTable
  cu,        \* a sppf.Cursor on fo
  mv,        \* the last move of cu: the call, its result, the cursor before it
  td,        \* the last TopDown traversal with cu: its arguments, events and value
  tat,       \* the last call of Parser.TokenAt: its argument, its result, the Parse calls before it
  wk         \* the last derivation walk: the completed items it chose for the child positions

ivars == <<gram, input, errAt, opts, mode>>
evars == <<states, tokens, sc, forest, pc, i, cur, x, nread, accept, err, parses>>
svars == <<stack, spc, stok, snread, saccept, serr, sred>>
fvars == <<fo, flog>>
gvars == <<lrgen, clo, lr0>>
cvars == <<cu, mv, td>>
wvars == <<wk, tat>>
vars == <<gram, input, errAt, opts, mode, states, tokens, sc, forest, pc, i, cur, x,
          nread, accept, err, parses, stack, spc, stok, snread, saccept, serr, sred,
          fo, flog, lrgen, clo, lr0, cu, mv, td, wk, tat>>

NoError == <<>>
ScanError(n) == <<"scanner", n>>
NoScannerError == <<"needs a valid scanner">>

hasmode(m) == m \in mode

\* the Option returned by StoreTokens(b), applied to a parser of mode m
StoreTokens(m, b) ==
  IF (optionGenerateTree \notin m /\ b) \/ (optionGenerateTree \in m /\ ~b)
  THEN m \cup {optionStoreTokens}
  ELSE m

\* the Option returned by GenerateTree(b), applied to a parser of mode m
GenerateTree(m, b) ==
  IF (optionGenerateTree \notin m /\ b) \/ (optionGenerateTree \in m /\ ~b)
  THEN m \cup {optionGenerateTree}
  ELSE m

\* NewParser(ga, os...): the mode after the options were applied in their order
RECURSIVE applyOptions(_, _, _)
applyOptions(m, os, k) ==
  IF k > Len(os) THEN m
  ELSE applyOptions(IF os[k].opt = "StoreTokens" THEN StoreTokens(m, os[k].b)
                    ELSE GenerateTree(m, os[k].b), os, k + 1)

NewParser(os) == applyOptions({optionStoreTokens}, os, 1)

\* the p.tokens of NewParser
NewTokens == << NilSym >>

\* Parser.TokenAt(pos); Go indexes from 0, toks[k + 1] is p.tokens[k]
TokenAt(toks, pos) ==
  IF pos >= 0 /\ pos < Len(toks)
  THEN IF pos + 1 < Len(toks)
       THEN [panic |-> FALSE, nil |-> FALSE, token |-> toks[pos + 2]]
       ELSE [panic |-> TRUE, nil |-> FALSE, token |-> NilSym]     \* index out of range
  ELSE [panic |-> FALSE, nil |-> TRUE, token |-> NilSym]

NoTokenAt == [called |-> FALSE, after |-> 0, pos |-> 0, ret |-> [panic |-> FALSE, nil |-> TRUE, token |-> NilSym]]

\* Tokenizer.NextToken, the n-th call: after the end of the input every call
\* returns EOF
NextToken(n) == IF n <= Len(input) THEN input[n] ELSE EOF

\* the error handler installed by Parse is called during the n-th NextToken
HandlerCalled(n) == errAt # 0 /\ errAt = n

\* ------------------------------------------------------------------------
\* Earley: scan, predict, complete (applied to one item of S = states[i])
\* ------------------------------------------------------------------------
\* If [A -> ... . a ..., j] is in Si and a = x(i+1), add [A -> ... a . ..., j] to Si+1
scan(g, S1, item, tokval) ==
  LET a == PeekSymbol(g, item)
  IN  IF a # NilSym /\ a = tokval THEN SetAdd(S1, Advance(item)) ELSE S1

\* predict advancing the dot over every non-terminal, nullable or not
predictOverAnyNonTerm(g, S, item, n) ==
  With(PeekSymbol(g, item), LAMBDA B :
  With(FindNonTermRules(g, B), LAMBDA startitemsForB :
  With(SetUnion(S, [k \in 1..Len(startitemsForB) |->
                      [startitemsForB[k] EXCEPT !.Origin = n]]), LAMBDA Sp :
    IF B # NilSym /\ ~IsTerminal(B) THEN SetAdd(Sp, Advance(item)) ELSE Sp)))

\* If [A -> ... . B ..., j] is in Si, add [B -> . alpha, i] to Si for all rules
\* B -> alpha.  If B is nullable, also add [A -> ... B . ..., j] to Si.
predict(g, S, item, n) ==
  With(PeekSymbol(g, item), LAMBDA B :
  With(FindNonTermRules(g, B), LAMBDA startitemsForB :
  With(SetUnion(S, [k \in 1..Len(startitemsForB) |->
                      [startitemsForB[k] EXCEPT !.Origin = n]]), LAMBDA Sp :
    IF DerivesEpsilon(g, B) THEN SetAdd(Sp, Advance(item)) ELSE Sp)))

\* If [A -> ... ., j] is in Si, add [B -> ... A . ..., k] to Si for all items
\* [B -> ... . A ..., k] in Sj.  sts is p.states with S at index n.
complete(g, sts, S, item, n) ==
  IF PeekSymbol(g, item) = NilSym
  THEN LET A == Rule(g, item.rule).LHS
           j == item.Origin
           Sj == IF j = n THEN S ELSE sts[j + 1]
       IN  With(SelectSeq(Sj, LAMBDA jtem : PeekSymbol(g, jtem) = A), LAMBDA Rset :
             SetUnion(S, [k \in 1..Len(Rset) |-> Advance(Rset[k])]))
  ELSE S

\* one iteration of the loop of innerLoop: the new <<S, S1>>
innerLoopBody(g, sts, n, item, tokval) ==
  With(scan(g, sts[n + 2], item, tokval), LAMBDA S1 :
  With(predict(g, sts[n + 1], item, n), LAMBDA Sp :
    <<complete(g, sts, Sp, item, n), S1>>))

\* checkAccept looking at the state set before the final one
checkAcceptPrevState(g, sts, n) ==
  \E k \in 1..Len(sts[n]) :
     /\ PeekSymbol(g, sts[n][k]) = NilSym
     /\ Rule(g, sts[n][k].rule).LHS = Rule(g, 0).LHS

\* checkAccept: the final state holds a reducible item whose LHS is the LHS of rule 0
checkAccept(g, sts, n) ==
  \E k \in 1..Len(sts[n + 1]) :
     /\ PeekSymbol(g, sts[n + 1][k]) = NilSym
     /\ Rule(g, sts[n + 1][k].rule).LHS = Rule(g, 0).LHS


\* ------------------------------------------------------------------------
\* Derivation walker and tree builder
\* ------------------------------------------------------------------------
\* try handing a new ruleset to every recursive walk
tryNewRuleset(pos, end, trys) == {}

\* the ruleset handed to a recursive walk: shared with the caller iff pos = end
try(pos, end, trys) == IF pos = end THEN trys ELSE {}

\* Does item complete a rule with LHS B ?
itemCompletes(g, item, B) ==
  PeekSymbol(g, item) = NilSym /\ Rule(g, item.rule).LHS = B

\* Throw away non-completing items
cleanupState(g, S) == SelectSeq(S, LAMBDA item : PeekSymbol(g, item) = NilSym)

\* pos-- on a uint64
Decr(pos) == IF pos = 0 THEN U64Wrap ELSE pos - 1

\* the loop of the ambiguous case with the origin comparison reversed: selects
\* the item which starts rightmost
RECURSIVE SelectShortest(_, _, _, _, _)
SelectShortest(R_, k, item, trys, longest) ==
  IF k > Len(R_) THEN longest
  ELSE LET rule == R_[k]
       IN  With(IF rule.rule \in trys THEN longest
                ELSE IF item.Origin <= rule.Origin
                     THEN IF longest.rule = -1 THEN rule
                          ELSE IF rule.Origin > longest.Origin THEN rule
                          ELSE IF rule.Origin = longest.Origin /\ rule.rule < longest.rule
                               THEN rule
                               ELSE longest
                     ELSE longest,
                LAMBDA nxt : SelectShortest(R_, k + 1, item, trys, nxt))

\* the loop of the ambiguous case: selects the item of R not yet tried which
\* starts leftmost, lowest rule number first; a rule of -1 is the zero Item
RECURSIVE SelectLongest(_, _, _, _, _)
SelectLongest(R_, k, item, trys, longest) ==
  IF k > Len(R_) THEN longest
  ELSE LET rule == R_[k]
       IN  With(IF rule.rule \in trys THEN longest
                ELSE IF item.Origin <= rule.Origin
                     THEN IF longest.rule = -1 THEN rule
                          ELSE IF rule.Origin < longest.Origin THEN rule
                          ELSE IF rule.Origin = longest.Origin /\ rule.rule < longest.rule
                               THEN rule
                               ELSE longest
                     ELSE longest,
                LAMBDA nxt : SelectLongest(R_, k + 1, item, trys, nxt))

WalkResult(node, trys, cleaned, f, value, sels) ==
  [node |-> node, trys |-> trys, cleaned |-> cleaned, f |-> f, value |-> value, sels |-> sels]

\* TreeBuilder.Reduce(sym, rule, rhs, span): kids are the Values of the
\* RuleNodes in rhs, symbol nodes of the builder's forest
Reduce(g, f, item, kids) ==
  IF Len(kids) = 0
  THEN AddEpsilonReduction(f, GSym(Rule(g, item.rule).LHS), item.rule, item.Origin)
  ELSE AddReduction(f, GSym(Rule(g, item.rule).LHS), item.rule,
                    [k \in 1..Len(kids) |-> f.symbolNodes[kids[k]]])

\* walk(item, pos, trys, listener, level) with a TreeBuilder as listener.
\* The result tells whether a RuleNode is returned ("node"), nil is returned
\* ("nil") or the walk ends in a run-time panic ("panic"); trys is the content
\* of the ruleset passed in when the walk ends, cleaned the positions of the
\* states cleaned up, f the builder's forest and value the Value of the
\* RuleNode.  walkRHS is the loop over rev(RHS) from index n on, nilkid tells
\* whether a nil has been stored in ruleNodes, kids holds the Values of the
\* nodes stored in ruleNodes so far.  sels records the choices of the
\* loop: the item walked, the position, R, the ruleset and the item chosen
\* (rule -1: none); R holds several items in the ambiguous case.
RECURSIVE walk(_, _, _, _, _, _, _, _)
RECURSIVE walkRHS(_, _, _, _, _, _, _, _, _, _, _, _, _, _)
walkRHS(g, sts, toks, item, n, pos, end, trys, cleaned, nilkid, f, kids, sels, path) ==
  LET rhs == Rule(g, item.rule).rhs
      l == Len(rhs)
  IN
  IF n >= l
  THEN IF pos > item.Origin
       THEN WalkResult("nil", trys, cleaned, f, 0, sels)     \* stuck: start not reached
       ELSE IF nilkid
            THEN WalkResult("panic", trys, cleaned, f, 0, sels) \* Reduce dereferences a nil RuleNode
            ELSE With(Reduce(g, f, item, kids), LAMBDA r :
                      WalkResult(IF r.f.panic THEN "panic" ELSE "node",
                                 trys, cleaned, r.f, r.ret, sels))
  ELSE
  LET B == rhs[l - n]
      leftmost == (n + 1 = l)
  IN
  IF IsTerminal(B)
  THEN IF pos >= Len(toks)
       THEN WalkResult("panic", trys, cleaned, f, 0, sels)   \* p.tokens[pos] out of range
       ELSE With(AddTerminal(f, GSym(B), Decr(pos)), LAMBDA t :
                 walkRHS(g, sts, toks, item, n + 1, Decr(pos), end, trys, cleaned, nilkid,
                         t.f, <<t.ret>> \o kids, sels, path))
  ELSE
  IF pos >= Len(sts)
  THEN WalkResult("panic", trys, cleaned, f, 0, sels)        \* p.states[pos] out of range
  ELSE
  With(cleaned \cup {pos}, LAMBDA cl :
  With(SelectSeq(cleanupState(g, sts[pos + 1]), LAMBDA jtem : itemCompletes(g, jtem, B)),
       LAMBDA R_ :
  IF Len(R_) = 0
  THEN WalkResult("nil", trys, cl, f, 0, sels)
  ELSE
  With(IF Len(R_) > 1 THEN SelectLongest(R_, 1, item, trys, Item(-1, 0, 0)) ELSE R_[1],
       LAMBDA child :
  With(sels \cup {[item |-> item, pos |-> pos, R |-> R_, trys |-> trys, child |-> child]},
       LAMBDA sels1 :
  IF child.rule = -1
  THEN WalkResult("nil", trys, cl, f, 0, sels1)
  ELSE
  With(IF Len(R_) > 1 THEN trys \cup {child.rule} ELSE trys, LAMBDA trys1 :
  IF leftmost /\ child.Origin # item.Origin
  THEN WalkResult("nil", trys1, cl, f, 0, sels1)
  ELSE
  With(walk(g, sts, toks, child, pos, try(pos, end, trys1), f, path), LAMBDA sub :
  With(IF pos = end THEN sub.trys ELSE trys1, LAMBDA trys2 :
  With(cl \cup sub.cleaned, LAMBDA cl2 :
  IF sub.node \in {"panic", "loop"}
  THEN WalkResult(sub.node, trys2, cl2, sub.f, 0, sels1 \cup sub.sels)
  ELSE walkRHS(g, sts, toks, item, n + 1, child.Origin, end, trys2, cl2,
               nilkid \/ sub.node = "nil", sub.f, <<sub.value>> \o kids,
               sels1 \cup sub.sels, path)))))))))

\* path holds the arguments (item, pos, content of trys) of the walks this one
\* was called from: a walk called with the arguments of one of them repeats
\* its steps and recurs for ever ("loop")
walk(g, sts, toks, item, pos, trys, f, path) ==
  With([item |-> item, pos |-> pos, trys |-> trys], LAMBDA args :
    IF args \in path
    THEN WalkResult("loop", trys, {}, f, 0, {})
    ELSE walkRHS(g, sts, toks, item, 0, pos, pos, trys, {}, FALSE, f, <<>>, {},
                 path \cup {args}))

\* WalkDerivation(builder): walks every accepting item of the final state;
\* the result is the one of the last walk
RECURSIVE WalkItems(_, _, _, _, _, _)
WalkItems(g, sts, toks, n, k, root) ==
  IF k > Len(sts[n + 1]) \/ root.node \in {"panic", "loop"} THEN root
  ELSE LET item == sts[n + 1][k]
       IN  IF PeekSymbol(g, item) = NilSym /\ Rule(g, item.rule).LHS = Rule(g, 0).LHS
           THEN With(walk(g, sts, toks, item, n, {}, root.f, {}), LAMBDA w :
                With(WalkResult(w.node, {}, root.cleaned \cup w.cleaned, w.f, w.value,
                                root.sels \cup w.sels),
                     LAMBDA root1 :
                  WalkItems(g, sts, toks, n, k + 1, root1)))
           ELSE WalkItems(g, sts, toks, n, k + 1, root)

\* NewTreeBuilder and WalkDerivation(builder)
WalkDerivation(g, sts, toks, n) ==
  WalkItems(g, sts, toks, n, 1, WalkResult("nil", {}, {}, NewForest, 0, {}))


\* ------------------------------------------------------------------------
\* Initial state: a grammar, an input, a scanner and two fresh parsers
\* ------------------------------------------------------------------------
RECURSIVE Words(_)
Words(n) ==
  IF n = 0 THEN {<<>>}
  ELSE Words(n - 1) \cup {Append(w, t) : w \in {v \in Words(n - 1) : Len(v) = n - 1}, t \in Toks}

\* an entry of the parse stack of the SLR parser
stackitem(stateID, symID, span) == [stateID |-> stateID, symID |-> symID, span |-> span]

\* gorgo.Span: <<from, to>>; the zero value is Span{}
ZeroSpan == <<0, 0>>

\* no reduce has been made
NoReduce == [done |-> FALSE, rule |-> 0, la |-> ZeroSpan, popped |-> <<>>,
             pushed |-> stackitem(0, 0, ZeroSpan)]

\* the option lists a client passes: none, one option, or both in either order
Opt(name, b) == [opt |-> name, b |-> b]

OptionLists ==
  {<<>>}
  \cup {<<Opt(name, b)>> : name \in {"StoreTokens", "GenerateTree"}, b \in BOOLEAN}
  \cup {<<Opt("StoreTokens", b), Opt("GenerateTree", c)>> : b, c \in BOOLEAN}
  \cup {<<Opt("GenerateTree", c), Opt("StoreTokens", b)>> : b, c \in BOOLEAN}

\* the parsers and generators as their constructors leave them, the Earley
\* parser created with one of the option lists os
Created(os) ==
  /\ gram \in GrammarIds
  /\ input \in Words(MaxLen)
  /\ errAt \in 0..MaxErrPos
  \* earley.NewParser
  /\ opts \in os
  /\ mode = NewParser(opts)
  /\ states = << <<>> >>
  /\ tokens = NewTokens
  /\ sc = 0
  /\ forest = FALSE
  /\ pc = "idle"
  /\ i = 0
  /\ cur = 1
  /\ x = NilSym
  /\ nread = 0
  /\ accept = FALSE
  /\ err = NoError
  /\ parses = 0
  \* slr.NewParser
  /\ stack = <<>>
  /\ spc = "idle"
  /\ stok = NilSym
  /\ snread = 0
  /\ saccept = FALSE
  /\ serr = NoError
  /\ sred = NoReduce
  \* sppf.NewForest
  /\ fo = NewForest
  /\ flog = <<>>
  \* lr.NewTableGenerator
  /\ lrgen = NewTableGenerator
  /\ clo = [called |-> FALSE, S |-> <<>>, C |-> <<>>]
  /\ lr0 = [built |-> FALSE, t |-> NilTable, hasConflicts |-> FALSE]
  /\ cu = NilCursor
  /\ mv = NoMove
  /\ td = NoTraversal
  /\ wk = {}
  /\ tat = NoTokenAt

Init == Created({<<>>, <<Opt("GenerateTree", TRUE)>>})

\* ------------------------------------------------------------------------
\* earley.Parser.Parse
\* ------------------------------------------------------------------------
\* setupNextState(token): the new <<states, tokens>>
setupNextState(sts, toks, tokval) ==
  << Append(sts, <<>>),
     IF hasmode(optionStoreTokens) THEN Append(toks, tokval) ELSE toks >>

\* Parse called without a scanner
ParseNilScanner ==
  /\ pc \in {"idle", "returned"}
  /\ spc \in {"idle", "returned"}
  /\ parses < MaxParses
  /\ parses' = parses + 1
  /\ accept' = FALSE
  /\ err' = NoScannerError
  /\ nread' = 0
  /\ pc' = "returned"
  /\ UNCHANGED <<states, tokens, sc, forest, i, cur, x>>
  /\ UNCHANGED ivars
  /\ UNCHANGED fvars
  /\ UNCHANGED <<gvars, cvars, wvars>>
  /\ UNCHANGED svars

\* Parse called with a scanner positioned at the start of the input: the
\* code up to the first call of innerLoop
ParseStart ==
  /\ pc \in {"idle", "returned"}
  /\ spc \in {"idle", "returned"}
  /\ parses < MaxParses
  /\ parses' = parses + 1
  /\ accept' = FALSE
  /\ err' = IF HandlerCalled(1) THEN ScanError(1) ELSE NoError
  /\ forest' = FALSE
  /\ nread' = 1
  /\ x' = NextToken(1)
  /\ LET s0 == [states EXCEPT ![1] = <<StartItem(0)>>]
         nx == setupNextState(s0, tokens, NextToken(1))
     IN  /\ states' = nx[1]
         /\ tokens' = nx[2]
  /\ i' = sc
  /\ sc' = sc + 1
  /\ cur' = 1
  /\ pc' = "inner"
  /\ UNCHANGED ivars
  /\ UNCHANGED fvars
  /\ UNCHANGED <<gvars, cvars, wvars>>
  /\ UNCHANGED svars

\* innerLoop: Scanner, Predictor and Completer for the next item of Si
InnerLoopStep ==
  /\ pc = "inner"
  /\ cur <= Len(states[i + 1])
  /\ \E b \in {innerLoopBody(gram, states, i, states[i + 1][cur], x)} :
       states' = [states EXCEPT ![i + 1] = b[1], ![i + 2] = b[2]]
  /\ cur' = cur + 1
  /\ UNCHANGED <<tokens, sc, forest, pc, i, x, nread, accept, err, parses>>
  /\ UNCHANGED ivars
  /\ UNCHANGED fvars
  /\ UNCHANGED <<gvars, cvars, wvars>>
  /\ UNCHANGED svars

\* the outer loop without the break on EOF
NextInputNoBreak ==
  /\ pc = "inner"
  /\ cur > Len(states[i + 1])
  /\ nread' = nread + 1
  /\ x' = NextToken(nread + 1)
  /\ err' = IF HandlerCalled(nread + 1) THEN ScanError(nread + 1) ELSE err
  /\ LET nx == setupNextState(states, tokens, NextToken(nread + 1))
     IN  /\ states' = nx[1]
         /\ tokens' = nx[2]
  /\ i' = sc
  /\ sc' = sc + 1
  /\ cur' = 1
  /\ UNCHANGED <<forest, pc, accept, parses>>
  /\ UNCHANGED ivars
  /\ UNCHANGED fvars
  /\ UNCHANGED <<gvars, cvars, wvars>>
  /\ UNCHANGED svars

\* Si is exhausted and x is not EOF: read the next token, set up Si+1
NextInput ==
  /\ pc = "inner"
  /\ cur > Len(states[i + 1])
  /\ x # EOF
  /\ nread' = nread + 1
  /\ x' = NextToken(nread + 1)
  /\ err' = IF HandlerCalled(nread + 1) THEN ScanError(nread + 1) ELSE err
  /\ LET nx == setupNextState(states, tokens, NextToken(nread + 1))
     IN  /\ states' = nx[1]
         /\ tokens' = nx[2]
  /\ i' = sc
  /\ sc' = sc + 1
  /\ cur' = 1
  /\ UNCHANGED <<forest, pc, accept, parses>>
  /\ UNCHANGED ivars
  /\ UNCHANGED fvars
  /\ UNCHANGED <<gvars, cvars, wvars>>
  /\ UNCHANGED svars

\* Si is exhausted and x is EOF: leave the loop, check for acceptance
Finish ==
  /\ pc = "inner"
  /\ cur > Len(states[i + 1])
  /\ x = EOF
  /\ accept' = checkAccept(gram, states, sc)
  /\ pc' = IF accept' /\ hasmode(optionGenerateTree) THEN "build" ELSE "returned"
  /\ UNCHANGED <<states, tokens, sc, forest, i, cur, x, nread, err, parses>>
  /\ UNCHANGED ivars
  /\ UNCHANGED fvars
  /\ UNCHANGED <<gvars, cvars, wvars>>
  /\ UNCHANGED svars

\* the states after the walk has cleaned up the positions in cl
CleanedStates(g, sts, cl) ==
  [k \in 1..Len(sts) |-> IF (k - 1) \in cl THEN cleanupState(g, sts[k]) ELSE sts[k]]

\* buildTree: a nil root or a nil child node is dereferenced, Parse panics
BuildTree ==
  /\ pc = "build"
  /\ \E root \in {WalkDerivation(gram, states, tokens, sc)} :
       /\ states' = CleanedStates(gram, states, root.cleaned)
       /\ forest' = (root.node = "node")
       /\ pc' = IF root.node = "node" THEN "returned"
                ELSE IF root.node = "loop" THEN "walking" ELSE "panic"
       /\ wk' = root.sels
       /\ tat' = tat
  /\ UNCHANGED <<tokens, sc, i, cur, x, nread, accept, err, parses>>
  /\ UNCHANGED ivars
  /\ UNCHANGED fvars
  /\ UNCHANGED <<gvars, cvars>>
  /\ UNCHANGED svars



\* ------------------------------------------------------------------------
\* slr.Parser.Parse
\* ------------------------------------------------------------------------
IsNull(s) == s = ZeroSpan

Extend(s, other) ==
  << IF other[1] < s[1] THEN other[1] ELSE s[1],
     IF other[2] > s[2] THEN other[2] ELSE s[2] >>

\* Token.Span of the token the n-th NextToken returns: every token of the
\* input covers one position, the EOF token is empty at the end of the input
TokenSpan(n) == IF n <= Len(input) THEN <<n - 1, n>> ELSE <<Len(input), Len(input)>>

\* the loop of reduce over the n symbols of the handle: pop TOS, then extend
\* the span by the one of the entry which is on top now
RECURSIVE reduceLoop(_, _, _)
reduceLoop(stk, n, handlespan) ==
  IF n = 0 THEN <<stk, handlespan>>
  ELSE With(SubSeq(stk, 1, Len(stk) - 1), LAMBDA popped :
         reduceLoop(popped, n - 1, Extend(handlespan, popped[Len(popped)].span)))

\* reduce taking the GOTO entry of the state on top before the handle is popped
reduceFromOldTop(g, stk, k) ==
  With(reduceLoop(stk, Len(Rule(g, k).rhs), ZeroSpan), LAMBDA r :
    <<r[1], TableValue(gototable[g], stk[Len(stk)].stateID, Rule(g, k).LHS), r[2]>>)

\* reduce(stateID, rule): pops |RHS| items, the new <<stack, nextstate, handlespan>>
reduce(g, stk, k) ==
  With(reduceLoop(stk, Len(Rule(g, k).rhs), ZeroSpan), LAMBDA r :
    <<r[1], TableValue(gototable[g], r[1][Len(r[1])].stateID, Rule(g, k).LHS), r[2]>>)

\* the span pushed by Parse for a handle span: a null span is taken for the
\* one of an epsilon production and put before the lookahead at la
pushedSpan(handlespan, la) ==
  IF IsNull(handlespan) THEN <<Decr(la[1]), Decr(la[1])>> ELSE handlespan


\* Parse(S0, scan) up to the loop: push S0, read the first token
SLRStart ==
  /\ spc = "idle"
  /\ pc = "idle"
  /\ stack' = Append(stack, stackitem(0, 0, ZeroSpan))
  /\ stok' = NextToken(1)
  /\ snread' = 1
  /\ spc' = "loop"
  /\ UNCHANGED <<saccept, serr, sred>>
  /\ UNCHANGED ivars
  /\ UNCHANGED fvars
  /\ UNCHANGED <<gvars, cvars, wvars>>
  /\ UNCHANGED evars

\* one iteration of the loop of Parse
SLRStep ==
  /\ spc = "loop"
  /\ Len(stack) < MaxStack
  /\ \E state \in {stack[Len(stack)]} :
     \E action \in {TableValue(actiontable[gram], state.stateID, stok)} :
         CASE action = DefaultNullValue ->
                /\ saccept' = FALSE
                /\ serr' = <<"syntax error", stok>>
                /\ spc' = "returned"
                /\ UNCHANGED <<stack, stok, snread, sred>>
           [] action = AcceptAction ->
                /\ saccept' = TRUE
                /\ spc' = "returned"
                /\ UNCHANGED <<stack, stok, snread, serr, sred>>
           [] action = ShiftAction ->
                /\ stack' = Append(stack,
                     stackitem(TableValue(gototable[gram], state.stateID, stok), stok,
                               TokenSpan(snread)))
                /\ stok' = NextToken(snread + 1)
                /\ snread' = snread + 1
                /\ UNCHANGED <<spc, saccept, serr, sred>>
           [] action > 0 ->
                /\ \E r \in {reduce(gram, stack, action)} :
                   \E pushed \in {stackitem(r[2], Rule(gram, action).LHS,
                                            pushedSpan(r[3], TokenSpan(snread)))} :
                     /\ stack' = Append(r[1], pushed)
                     /\ sred' = [done |-> TRUE, rule |-> action, la |-> TokenSpan(snread),
                                 popped |-> SubSeq(stack, Len(r[1]) + 1, Len(stack)),
                                 pushed |-> pushed]
                /\ UNCHANGED <<spc, stok, snread, saccept, serr>>
           [] OTHER ->
                /\ spc' = "returned"
                /\ UNCHANGED <<stack, stok, snread, saccept, serr, sred>>
  /\ UNCHANGED ivars
  /\ UNCHANGED fvars
  /\ UNCHANGED <<gvars, cvars, wvars>>
  /\ UNCHANGED evars

\* a client asks for the token at a position between two calls of Parse
TokenAtCall ==
  /\ pc \in {"idle", "returned"}
  /\ spc \in {"idle", "returned"}
  /\ \E pos \in 0..(MaxLen + 2) :
       tat' = [called |-> TRUE, after |-> parses, pos |-> pos, ret |-> TokenAt(tokens, pos)]
  /\ UNCHANGED <<ivars, evars, svars, fvars, gvars, cvars, wk>>

\* the Earley parser created with any of the option lists
OInit ==
  /\ Created(OptionLists)
  /\ gram \in {1, 5}
  /\ errAt = 0

Next ==
  \/ TokenAtCall
  \/ SLRStart
  \/ SLRStep
  \/ ParseNilScanner
  \/ ParseStart
  \/ InnerLoopStep
  \/ NextInput
  \/ Finish
  \/ BuildTree

Spec == Init /\ [][Next]_vars

OptionSpec == OInit /\ [][Next]_vars

\* ------------------------------------------------------------------------
\* A client of package sppf: it builds one forest through AddTerminal,
\* AddReduction and AddEpsilonReduction for the rules of the grammar.  The
\* children of a reduction are symbol nodes over adjacent spans.
\* ------------------------------------------------------------------------
Terminals(g) ==
  UNION {{Rule(g, k).rhs[p] : p \in 1..Len(Rule(g, k).rhs)} : k \in RuleIds(g)} \ NonTerms(g)

\* where a node for A that starts at from may end
Ends(g, A, from) ==
  IF IsTerminal(A) THEN {from + 1}
  ELSE {p \in Positions : p > from \/ (p = from /\ DerivesEpsilon(g, A))}

RECURSIVE ChildNodes(_, _, _, _)
ChildNodes(g, syms, k, from) ==
  IF k > Len(syms) THEN {<<>>}
  ELSE UNION {{<<makeSym(GSym(syms[k]), from, to)>> \o rest :
                  rest \in ChildNodes(g, syms, k + 1, to)} : to \in Ends(g, syms[k], from)}

Call(op, sym, rule, start, rhs, rhsnode, ret) ==
  [op |-> op, sym |-> sym, rule |-> rule, start |-> start, rhs |-> rhs,
   rhsnode |-> rhsnode, ret |-> ret]

FInit ==
  /\ Init
  /\ input = <<>>
  /\ errAt = 0
  /\ mode = {optionStoreTokens}

FAddTerminal ==
  /\ ~fo.panic
  /\ Len(flog) < MaxCalls
  /\ \E t \in Terminals(gram), pos \in Positions :
       \E r \in {AddTerminal(fo, GSym(t), pos)} :
         /\ fo' = r.f
         /\ flog' = Append(flog, Call("AddTerminal", t, -1, pos, <<>>, 0, r.ret))
  /\ UNCHANGED <<ivars, evars, wvars, svars, gvars, cvars>>

FAddReduction ==
  /\ ~fo.panic
  /\ Len(flog) < MaxCalls
  /\ \E k \in RuleIds(gram), start \in Positions :
       /\ Len(Rule(gram, k).rhs) > 0
       /\ \E rhs \in ChildNodes(gram, Rule(gram, k).rhs, 1, start) :
            \E r \in {AddReduction(fo, GSym(Rule(gram, k).LHS), k, rhs)} :
              /\ fo' = r.f
              /\ flog' = Append(flog, Call("AddReduction", Rule(gram, k).LHS, k, start, rhs,
                                           addRHSNode(fo, k, rhs, start).ret, r.ret))
  /\ UNCHANGED <<ivars, evars, wvars, svars, gvars, cvars>>

FAddEpsilonReduction ==
  /\ ~fo.panic
  /\ Len(flog) < MaxCalls
  /\ \E k \in RuleIds(gram), pos \in Positions :
       /\ Len(Rule(gram, k).rhs) = 0
       /\ \E r \in {AddEpsilonReduction(fo, GSym(Rule(gram, k).LHS), k, pos)} :
            /\ fo' = r.f
            /\ flog' = Append(flog, Call("AddEpsilonReduction", Rule(gram, k).LHS, k, pos, <<>>,
                                         addRHSNode(fo, k, <<>>, pos).ret, r.ret))
  /\ UNCHANGED <<ivars, evars, wvars, svars, gvars, cvars>>

FNext ==
  \/ FAddTerminal
  \/ FAddReduction
  \/ FAddEpsilonReduction

ForestSpec == FInit /\ [][FNext]_vars

\* ------------------------------------------------------------------------
\* A client of package lr: it creates a TableGenerator for the analysed
\* grammar, has it create the tables, and calls closureSet on item sets of
\* the grammar.
\* ------------------------------------------------------------------------
\* the LR(0) items of grammar g
AllItems(g) == UNION {{Item(k, d, 0) : d \in 0..Len(Rule(g, k).rhs)} : k \in RuleIds(g)}

\* the item sets of up to n items, as iteratable.Sets
RECURSIVE ItemSets(_, _)
ItemSets(g, n) ==
  IF n = 0 THEN {<<>>}
  ELSE With(ItemSets(g, n - 1), LAMBDA smaller :
       smaller \cup {Append(p[1], p[2]) :
                       p \in {q \in smaller \X AllItems(g) : ~Contains(q[1], q[2])}})

TInit ==
  /\ Init
  /\ input = <<>>
  /\ errAt = 0
  /\ mode = {optionStoreTokens}

\* TableGenerator.CreateTables
CreateTables ==
  /\ ~lrgen.created
  /\ lrgen' = [created |-> TRUE, dfa |-> CFSM[gram], gototable |-> gototable[gram],
               actiontable |-> actiontable[gram], HasConflicts |-> HasConflicts[gram]]
  /\ UNCHANGED <<clo, lr0, ivars, evars, wvars, svars, fvars, cvars>>

\* LRAnalysis.closureSet(S)
ClosureSet ==
  /\ \E S \in ItemSets(gram, MaxItems) :
       clo' = [called |-> TRUE, S |-> S, C |-> closureSet(gram, S)]
  /\ UNCHANGED <<lrgen, lr0, ivars, evars, wvars, svars, fvars, cvars>>

\* TableGenerator.BuildLR0ActionTable, on a generator that has its CFSM
BuildLR0 ==
  /\ lrgen.created
  /\ ~lr0.built
  /\ lr0' = [built |-> TRUE, t |-> BuildLR0ActionTable(gram, lrgen.dfa).t,
             hasConflicts |-> BuildLR0ActionTable(gram, lrgen.dfa).hasConflicts]
  /\ UNCHANGED <<lrgen, clo, ivars, evars, wvars, svars, fvars, cvars>>

TNext ==
  \/ CreateTables
  \/ ClosureSet
  \/ BuildLR0

TableSpec == TInit /\ [][TNext]_vars

\* ------------------------------------------------------------------------
\* A client of package sppf that traverses a forest: it builds the forest
\* of a derivation tree bottom-up, as TestTraverse does, possibly adds one
\* later reduction, sets a cursor and moves it or calls TopDown.
\* A derivation tree is [sym, rule, from, to, kids], rule = -1 for a terminal.
\* ------------------------------------------------------------------------
RECURSIVE Derivs(_, _, _, _)
RECURSIVE DerivKids(_, _, _, _, _)
Derivs(g, A, from, d) ==
  IF IsTerminal(A)
  THEN {[sym |-> A, rule |-> -1, from |-> from, to |-> from + 1, kids |-> <<>>]}
  ELSE IF d = 0 THEN {}
  ELSE UNION {{[sym |-> A, rule |-> k, from |-> from,
                to |-> IF Len(kids) = 0 THEN from ELSE kids[Len(kids)].to, kids |-> kids] :
                 kids \in DerivKids(g, Rule(g, k).rhs, 1, from, d - 1)} :
              k \in {j \in RuleIds(g) : Rule(g, j).LHS = A}}

DerivKids(g, syms, k, from, d) ==
  IF k > Len(syms) THEN {<<>>}
  ELSE UNION {{<<t>> \o rest : rest \in DerivKids(g, syms, k + 1, t.to, d)} :
              t \in {u \in Derivs(g, syms[k], from, d) : u.to <= MaxLen + 1}}

RECURSIVE Build(_, _)
RECURSIVE BuildKids(_, _, _)
Build(f, t) ==
  IF f.panic THEN [f |-> f, ret |-> 0]
  ELSE IF t.rule = -1 THEN AddTerminal(f, GSym(t.sym), t.from)
  ELSE IF Len(t.kids) = 0 THEN AddEpsilonReduction(f, GSym(t.sym), t.rule, t.from)
  ELSE With(BuildKids(f, t.kids, 1), LAMBDA f1 :
            IF f1.panic THEN [f |-> f1, ret |-> 0]
            ELSE AddReduction(f1, GSym(t.sym), t.rule,
                              [k \in 1..Len(t.kids) |->
                                 makeSym(GSym(t.kids[k].sym), t.kids[k].from, t.kids[k].to)]))

BuildKids(f, kids, k) ==
  IF k > Len(kids) THEN f ELSE BuildKids(Build(f, kids[k]).f, kids, k + 1)

\* the reductions a client may add after the tree: a rule applied at 0 or 1
LaterReductions(g) ==
  UNION {Derivs(g, A, from, 2) : A \in NonTerms(g) \ {SPrime}, from \in 0..1}

CInit ==
  /\ Init
  /\ input = <<>>
  /\ errAt = 0
  /\ mode = {optionStoreTokens}

CBuild ==
  /\ mv.op = "none"
  /\ \E t \in Derivs(gram, SPrime, 0, MaxDepth) :
       \/ fo' = Build(NewForest, t).f
       \/ \E later \in LaterReductions(gram) : fo' = Build(Build(NewForest, t).f, later).f
  /\ mv' = [mv EXCEPT !.op = "Build"]
  /\ UNCHANGED <<flog, cu, td, ivars, evars, wvars, svars, gvars>>

CSetCursor ==
  /\ mv.op = "Build"
  /\ ~fo.panic
  /\ \E rnode \in {0} \cup {fo.andEdges[k].toSym : k \in 1..Len(fo.andEdges)} :
       /\ SetCursor(fo, rnode).set
       /\ cu' = SetCursor(fo, rnode)
  /\ mv' = [mv EXCEPT !.op = "SetCursor"]
  /\ UNCHANGED <<fvars, td, ivars, evars, wvars, svars, gvars>>

Moved(op, dir, r) ==
  [op |-> op, dir |-> dir, ok |-> r.ok, before |-> cu, n |-> mv.n + 1,
   downs |-> IF op = "Down" /\ r.ok THEN Append(mv.downs, cu.current)
             ELSE IF op = "Up" /\ r.ok /\ Len(mv.downs) > 0
                  THEN SubSeq(mv.downs, 1, Len(mv.downs) - 1)
                  ELSE mv.downs,
   expect |-> IF Len(mv.downs) > 0 THEN mv.downs[Len(mv.downs)] ELSE 0]

CUp ==
  /\ cu.set /\ ~cu.panic /\ mv.n < MaxMoves
  /\ cu' = Up(fo, cu).c
  /\ mv' = Moved("Up", LtoR, Up(fo, cu))
  /\ UNCHANGED <<fvars, td, ivars, evars, wvars, svars, gvars>>

CDown ==
  /\ cu.set /\ ~cu.panic /\ mv.n < MaxMoves
  /\ \E dir \in {LtoR, RtoL} :
       /\ cu' = Down(fo, cu, dir).c
       /\ mv' = Moved("Down", dir, Down(fo, cu, dir))
  /\ UNCHANGED <<fvars, td, ivars, evars, wvars, svars, gvars>>

CSibling ==
  /\ cu.set /\ ~cu.panic /\ mv.n < MaxMoves
  /\ cu' = Sibling(fo, cu).c
  /\ mv' = Moved("Sibling", LtoR, Sibling(fo, cu))
  /\ UNCHANGED <<fvars, td, ivars, evars, wvars, svars, gvars>>

CTopDown ==
  /\ cu.set /\ ~cu.panic /\ ~td.done
  /\ \E dir \in {LtoR, RtoL}, breakmode \in {Continue, Break}, cont \in BOOLEAN :
       \E r \in {TopDown(fo, cu, dir, breakmode, cont)} :
         /\ cu' = r.c
         /\ td' = [done |-> TRUE, dir |-> dir, breakmode |-> breakmode, cont |-> cont,
                   start |-> cu.current, log |-> r.log, value |-> r.value]
  /\ mv' = [mv EXCEPT !.op = "TopDown", !.before = cu]
  /\ UNCHANGED <<fvars, ivars, evars, wvars, svars, gvars>>

CNext ==
  \/ CBuild
  \/ CSetCursor
  \/ CUp
  \/ CDown
  \/ CSibling
  \/ CTopDown

CursorSpec == CInit /\ [][CNext]_vars




\* ------------------------------------------------------------------------
\* The language of a grammar, by definition: the words over Toks of length
\* up to MaxLen derivable from the start symbol S (least fixed point)
\* ------------------------------------------------------------------------
RECURSIVE DerivRHS(_, _, _)
DerivRHS(D, rhs, k) ==
  IF k > Len(rhs) THEN {<<>>}
  ELSE LET first == IF IsTerminal(rhs[k]) THEN {<<rhs[k]>>} ELSE D[rhs[k]]
       IN  {v \o w : v \in first, w \in DerivRHS(D, rhs, k + 1)} \cap Words(MaxLen)

RECURSIVE DerivFix(_, _)
DerivFix(g, D) ==
  LET D2 == [A \in NonTerms(g) |->
               D[A] \cup UNION {DerivRHS(D, Rule(g, k).rhs, 1) :
                                  k \in {r \in 1..(NumRules(g) - 1) : Rule(g, r).LHS = A}}]
  IN  IF D2 = D THEN D ELSE DerivFix(g, D2)

Lang == [g \in GrammarIds |-> DerivFix(g, [A \in NonTerms(g) |-> {}])[nS]]

IsSentence == input \in Lang[gram]

\* ------------------------------------------------------------------------
\* Observations
\* ------------------------------------------------------------------------
\* the current Parse call of the Earley parser has ended
ParseEnded == pc \in {"returned", "panic"}

\* the last Parse call was given a scanner and has left the loop
EOFProcessed == pc \in {"returned", "build", "panic"} /\ parses > 0 /\ err # NoScannerError

\* the final state set holds a reducible item of rule 0
FinalSetHasStartItem ==
  \E k \in 1..Len(states[sc + 1]) :
     /\ states[sc + 1][k].rule = 0
     /\ states[sc + 1][k].dot = Len(Rule(gram, 0).rhs)

\* ParseForest()
ParseForest == forest

NoDuplicates(S) == \A k, l \in 1..Len(S) : S[k] = S[l] => k = l


\* a grammar with a rule whose right-hand side starts with its own LHS
LeftRecursive(g) ==
  \E k \in RuleIds(g) : Len(Rule(g, k).rhs) > 0 /\ Rule(g, k).rhs[1] = Rule(g, k).LHS

\* ------------------------------------------------------------------------
\* Claims
\* ------------------------------------------------------------------------

\* C1: whenever a Parse call that was given a scanner delivering a sentence of
\* the grammar (and reporting no error) has ended, it has returned
\* accept = true and a nil error.
C1_SentenceAccepted ==
  (ParseEnded /\ parses > 0 /\ err # NoScannerError /\ errAt = 0 /\ IsSentence)
    => (pc = "returned" /\ accept /\ err = NoError)

\* C2: once the EOF token has been processed, the result accept of Parse is
\* true if and only if the final state set holds a reducible item of rule 0.
C2_AcceptIffStartItem == EOFProcessed => (accept <=> FinalSetHasStartItem)

\* an accepting Parse of a non-empty input has returned
C2_Witness ==
  /\ pc = "returned"
  /\ EOFProcessed
  /\ accept
  /\ FinalSetHasStartItem
  /\ Len(input) > 0

\* C3: if the SLR parser has accepted the input, a Parse call of the Earley
\* recognizer for the same grammar and input that has ended has returned
\* accept = true.
C3_SLRAcceptImpliesEarley ==
  (spc = "returned" /\ saccept /\ ParseEnded /\ parses > 0 /\ err # NoScannerError)
    => (pc = "returned" /\ accept)

\* C4: for a grammar whose SLR(1) tables have no conflicts, the SLR parser
\* started in S0 returns accepting = true and a nil error for every sentence.
C4_SLRAcceptsSentences ==
  (spc = "returned" /\ ~HasConflicts[gram] /\ IsSentence)
    => (saccept /\ serr = NoError)

\* the SLR parser has accepted the empty input for a nullable start symbol
C4_Witness ==
  /\ spc = "returned"
  /\ ~HasConflicts[gram]
  /\ input = <<>>
  /\ DerivesEpsilon(gram, nS)
  /\ saccept
  /\ serr = NoError

\* the number of items [rule, dot, origin] a state set can hold
RECURSIVE NumDotted(_, _)
NumDotted(g, k) ==
  IF k >= NumRules(g) THEN 0 ELSE Len(Rule(g, k).rhs) + 1 + NumDotted(g, k + 1)

ItemBound(g) == NumDotted(g, 0) * (MaxParses * (MaxLen + 1) + 1)

\* the steps the loops of Parse can still take: tokens left to read, then
\* items left to visit
Measure ==
  (Len(input) + 1 - nread) * (ItemBound(gram) + 2) + (ItemBound(gram) + 2 - cur)

\* what holds of the loops of Parse in every state
LoopInvariant ==
  /\ nread <= Len(input) + 1
  /\ EOFProcessed => (x = EOF /\ nread = Len(input) + 1)
  /\ \A k \in 1..Len(states) : NoDuplicates(states[k])
  /\ pc = "inner" => /\ cur <= Len(states[i + 1]) + 1
                     /\ Len(states[i + 1]) <= ItemBound(gram)
                     /\ Measure >= 0

C6_SyntaxErrorReturned ==
  (pc = "returned" /\ parses > 0 /\ err # NoScannerError /\ errAt = 0 /\ ~IsSentence)
    => (~accept /\ err # NoError)

\* C7: once the scanner has reported an error, Parse reads no further token,
\* and it returns that error.
C7_ScannerErrorStopsParse ==
  [][/\ (pc = "inner" /\ err # NoError) => (nread' = nread)
     /\ (ParseEnded' /\ EOFProcessed' /\ errAt \in 1..nread') => (err' = ScanError(errAt))]_vars

\* C8: after Parse has returned accept = true, WalkDerivation with a
\* TreeBuilder returns a root node (it neither gets stuck nor fails).
C8_WalkReturnsRoot ==
  (pc = "returned" /\ EOFProcessed /\ accept)
    => WalkDerivation(gram, states, tokens, sc).node = "node"

\* C9: between Parse calls ParseForest returns a forest only if the most
\* recent Parse returned accept = true and GenerateTree is set.
C9_ForestOnlyAfterAccept ==
  (pc = "returned" /\ ParseForest) => (accept /\ hasmode(optionGenerateTree))

\* C10: if the back-walk of an accepted input is stuck, Parse still returns
\* accept = true and ParseForest returns nil.
C10_StuckBuildAborts ==
  (EOFProcessed /\ pc # "build" /\ accept /\ hasmode(optionGenerateTree)
     /\ WalkDerivation(gram, states, tokens, sc).node # "node")
    => (pc = "returned" /\ ~ParseForest)

\* ------------------------------------------------------------------------
\* Observations on the forest and on the calls that built it
\* ------------------------------------------------------------------------
\* the calls that construct an RHS node
Constructions ==
  {c \in 1..Len(flog) : flog[c].op \in {"AddReduction", "AddEpsilonReduction"}}

\* the children of two constructions are equal as (symbol, from) pairs
SameChildren(a, b) ==
  /\ Len(a) = Len(b)
  /\ \A k \in 1..Len(a) : a[k].Symbol = b[k].Symbol /\ a[k].from = b[k].from

SameConstruction(a, b) ==
  /\ flog[a].rule = flog[b].rule
  /\ flog[a].start = flog[b].start
  /\ SameChildren(flog[a].rhs, flog[b].rhs)

\* C11: two RHS-node constructions with equal rule, start and children (as
\* (symbol, from) pairs) yield the same RHS node, and the forest never holds
\* two distinct RHS nodes for the same (rule, start, children).
C11_EqualConstructionsShareNode ==
  /\ \A a, b \in Constructions : SameConstruction(a, b) => flog[a].rhsnode = flog[b].rhsnode
  /\ \A m, n \in 1..Len(fo.rhsNodes) : fo.rhsNodes[m] = fo.rhsNodes[n] => m = n

C11_Witness ==
  \E a, b \in Constructions :
    /\ a < b
    /\ Len(flog[a].rhs) > 1
    /\ SameConstruction(a, b)
    /\ flog[a].rhsnode = flog[b].rhsnode
    /\ flog[a].rhsnode \in 1..Len(fo.rhsNodes)


\* C12: RHS constructions with the same rule and start position but
\* different children get distinct RHS nodes, also when their signatures
\* coincide.
C12_DifferentChildrenDistinctNodes ==
  \A a, b \in Constructions :
    (/\ flog[a].rule = flog[b].rule
     /\ flog[a].start = flog[b].start
     /\ ~SameChildren(flog[a].rhs, flog[b].rhs))
      => flog[a].rhsnode # flog[b].rhsnode


\* C13: for every symbol A and span (x, y) the forest holds at most one
\* symbol node [A, (x, y)].
C13_OneNodePerSymbolAndSpan ==
  \A m, n \in 1..Len(fo.symbolNodes) :
    (/\ fo.symbolNodes[m].Symbol.Value = fo.symbolNodes[n].Symbol.Value
     /\ fo.symbolNodes[m].from = fo.symbolNodes[n].from
     /\ fo.symbolNodes[m].to = fo.symbolNodes[n].to)
      => m = n


\* the and-edges that leave RHS node n
AndEdgesOf(n) == {e \in 1..Len(fo.andEdges) : fo.andEdges[e].fromRHS = n}

\* the sequence numbers an RHS node of rule k is to carry (an eps-RHS
\* carries the one edge to the eps terminal)
SequenceNumbers(k) ==
  IF Len(Rule(gram, k).rhs) = 0 THEN {0} ELSE 0..(Len(Rule(gram, k).rhs) - 1)

\* C14: every RHS node has and-edges numbered exactly 0..|RHS|-1, without
\* gaps or duplicates, whatever reductions were added.
C14_AndEdgesNumbered ==
  ~fo.panic =>
    \A n \in 1..Len(fo.rhsNodes) :
      /\ {fo.andEdges[e].sequence : e \in AndEdgesOf(n)} = SequenceNumbers(fo.rhsNodes[n].rule)
      /\ Cardinality(AndEdgesOf(n)) = Cardinality(SequenceNumbers(fo.rhsNodes[n].rule))


\* the span's end of the symbol node that construction c reduces to
EndOf(c) == IF Len(flog[c].rhs) = 0 THEN flog[c].start ELSE flog[c].rhs[Len(flog[c].rhs)].to

\* C15: a symbol node carries an or-edge to the RHS node of every reduction
\* added for its symbol and span (a further reduction with another RHS node
\* adds an or-edge and keeps the others), and no or-edge is held twice.
C15_OrEdgePerReduction ==
  /\ \A c \in Constructions :
       \E e \in 1..Len(fo.orEdges) :
         /\ fo.orEdges[e].fromSym = findSymNode(fo, GSym(flog[c].sym), flog[c].start, EndOf(c))
         /\ fo.orEdges[e].fromSym # 0
         /\ fo.orEdges[e].toRHS = flog[c].rhsnode
  /\ \A d, e \in 1..Len(fo.orEdges) : fo.orEdges[d] = fo.orEdges[e] => d = e

\* ------------------------------------------------------------------------
\* Observations on closures, the CFSM and the tables
\* ------------------------------------------------------------------------
AsSet(S) == {S[k] : k \in 1..Len(S)}

\* the start items an item set C asks for: [B -> . gamma] for every rule of a
\* non-terminal B that follows the dot of an item of C
Asked(g, C) ==
  {StartItem(k) : k \in {r \in RuleIds(g) :
      \E it \in C : /\ PeekSymbol(g, it) # NilSym
                    /\ ~IsTerminal(PeekSymbol(g, it))
                    /\ Rule(g, r).LHS = PeekSymbol(g, it)}}

\* the smallest item set that contains C and what it asks for
RECURSIVE LeastClosure(_, _)
LeastClosure(g, C) ==
  With(C \cup Asked(g, C), LAMBDA C2 : IF C2 = C THEN C ELSE LeastClosure(g, C2))

\* C20: closureSet(I) is the smallest item set C that contains I and, for
\* every item of C with a non-terminal B after the dot, the start items of
\* all rules of B; it is reached for left-recursive grammars as well.
C20_ClosureIsLeastFixedPoint ==
  clo.called =>
    /\ AsSet(clo.S) \subseteq AsSet(clo.C)
    /\ Asked(gram, AsSet(clo.C)) \subseteq AsSet(clo.C)
    /\ AsSet(clo.C) = LeastClosure(gram, AsSet(clo.S))
    /\ Cardinality(AsSet(clo.C)) = Len(clo.C)

\* the closure of the start item of the indirectly left-recursive grammar
\* S -> A a, A -> S b | c holds the start items of all four rules
C20_Witness ==
  /\ clo.called
  /\ NumRules(gram) > 2
  /\ Rule(gram, 2) = R(nA, <<nS, tb>>)
  /\ clo.S = <<StartItem(0)>>
  /\ AsSet(clo.C) = {StartItem(k) : k \in RuleIds(gram)}


\* goto(I, X): the closure of the items of I advanced over X
Goto(g, I, X) == LeastClosure(g, {Advance(it) : it \in {j \in I : PeekSymbol(g, j) = X}})

\* the edges of the CFSM that leave state s with label X
EdgesFrom(c, s, X) == {e \in 1..Len(c.edges) : c.edges[e].from = s /\ c.edges[e].label = X}

\* C18: in the CFSM every state s has, for every grammar symbol X, exactly
\* one X-edge, to the state whose items are goto(s.items, X), if that set is
\* not empty, and no X-edge otherwise; the items of the start state are the
\* closure of the start item of rule 0; no two states hold the same items.
C18_EdgesAreGotoSets ==
  lrgen.created =>
    /\ AsSet(lrgen.dfa.states[1]) = LeastClosure(gram, {StartItem(0)})
    /\ \A s \in 1..Len(lrgen.dfa.states), X \in AsSet(Symbols(gram)) :
         IF Goto(gram, AsSet(lrgen.dfa.states[s]), X) # {}
         THEN /\ Cardinality(EdgesFrom(lrgen.dfa, s - 1, X)) = 1
              /\ \A e \in EdgesFrom(lrgen.dfa, s - 1, X) :
                   /\ lrgen.dfa.edges[e].to \in 0..(Len(lrgen.dfa.states) - 1)
                   /\ AsSet(lrgen.dfa.states[lrgen.dfa.edges[e].to + 1])
                        = Goto(gram, AsSet(lrgen.dfa.states[s]), X)
         ELSE EdgesFrom(lrgen.dfa, s - 1, X) = {}
    /\ \A s, t \in 1..Len(lrgen.dfa.states) :
         AsSet(lrgen.dfa.states[s]) = AsSet(lrgen.dfa.states[t]) => s = t

\* a CFSM in which a goto set was found to be an existing state (an edge from
\* a state to itself) and in which some goto set is empty
C18_Witness ==
  /\ lrgen.created
  /\ \E e \in 1..Len(lrgen.dfa.edges) : lrgen.dfa.edges[e].from = lrgen.dfa.edges[e].to
  /\ \E s \in 1..Len(lrgen.dfa.states), X \in AsSet(Symbols(gram)) :
       /\ lrgen.dfa.states[s] # <<>>
       /\ Goto(gram, AsSet(lrgen.dfa.states[s]), X) = {}


\* the target of the X-edge of state s, the null value if there is none
EdgeTarget(c, s, X) ==
  IF EdgesFrom(c, s, X) = {} THEN DefaultNullValue
  ELSE c.edges[CHOOSE e \in EdgesFrom(c, s, X) : TRUE].to

\* C19: after table generation GOTO[s, X] is s' for every edge (s, X, s') of
\* the CFSM, terminals with a negative token type included, and the null
\* value where s has no X-edge.
C19_GotoTableIsEdges ==
  lrgen.created =>
    \A s \in 0..(Len(lrgen.dfa.states) - 1), X \in AsSet(Symbols(gram)) :
      TableValue(lrgen.gototable, s, X) = EdgeTarget(lrgen.dfa, s, X)

\* a GOTO table with an entry in the column of #eof, whose token type is
\* negative, and with an entry in the column of a non-terminal
C19_Witness ==
  /\ lrgen.created
  /\ EOF < 0
  /\ \E s \in 0..(Len(lrgen.dfa.states) - 1) :
       /\ EdgesFrom(lrgen.dfa, s, EOF) # {}
       /\ TableValue(lrgen.gototable, s, EOF) = EdgeTarget(lrgen.dfa, s, EOF)
       /\ TableValue(lrgen.gototable, s, EOF) # DefaultNullValue
  /\ \E s \in 0..(Len(lrgen.dfa.states) - 1) :
       /\ EdgesFrom(lrgen.dfa, s, nA) # {}
       /\ TableValue(lrgen.gototable, s, nA) = EdgeTarget(lrgen.dfa, s, nA)
       /\ TableValue(lrgen.gototable, s, tb) = DefaultNullValue


\* the actions the SLR(1) construction assigns to cell (s, t): a shift (or
\* accept) for an item of s with terminal t after the dot, a reduce by rule
\* k for a completed item of rule k with t in FOLLOW(LHS(k))
Assigned(g, c, s, t) ==
  {pT(t) : it \in {j \in AsSet(c.states[s + 1]) : PeekSymbol(g, j) = t}}
    \cup {it.rule : it \in {j \in AsSet(c.states[s + 1]) :
                              /\ PeekSymbol(g, j) = NilSym
                              /\ t \in Follow(g, Rule(g, j.rule).LHS)}}

\* the actions held by cell (s, t) of the ACTION table
Held(s, t) ==
  {TableValues(lrgen.actiontable, s, t)[k] : k \in 1..2} \ {DefaultNullValue}

Cells == (0..(Len(lrgen.dfa.states) - 1)) \X {X \in AsSet(Symbols(gram)) : IsTerminal(X)}

\* C16: a cell that is assigned a second, different action holds two of the
\* actions assigned to it and HasConflicts is true; a cell that is assigned
\* one action holds it; HasConflicts is false only if no cell holds two.
C16_ConflictsRetained ==
  lrgen.created =>
    /\ \A cell \in Cells :
         /\ Held(cell[1], cell[2]) \subseteq Assigned(gram, lrgen.dfa, cell[1], cell[2])
         /\ Cardinality(Assigned(gram, lrgen.dfa, cell[1], cell[2])) >= 2
              => (Cardinality(Held(cell[1], cell[2])) = 2 /\ lrgen.HasConflicts)
         /\ Cardinality(Assigned(gram, lrgen.dfa, cell[1], cell[2])) = 1
              => /\ Held(cell[1], cell[2]) = Assigned(gram, lrgen.dfa, cell[1], cell[2])
                 /\ TableValues(lrgen.actiontable, cell[1], cell[2])[2] = DefaultNullValue
    /\ ~lrgen.HasConflicts =>
         \A cell \in Cells : TableValues(lrgen.actiontable, cell[1], cell[2])[2] = DefaultNullValue

\* tables with a shift/reduce conflict: a cell holds a shift and a reduce
C16_Witness ==
  /\ lrgen.created
  /\ lrgen.HasConflicts
  /\ \E cell \in Cells :
       /\ ShiftAction \in Held(cell[1], cell[2])
       /\ \E k \in RuleIds(gram) : k > 0 /\ k \in Held(cell[1], cell[2])


\* the non-null values held by the SLR(1) ACTION table
ActionEntries == UNION {Held(cell[1], cell[2]) : cell \in Cells}

\* the non-null values held by the LR(0) ACTION table
LR0Entries ==
  UNION {{lr0.t.matrix[k].value[n] : n \in 1..2} : k \in 1..Len(lr0.t.matrix)}
    \ {DefaultNullValue}

\* C17: every non-null entry of an ACTION table is the shift sentinel -1,
\* the accept sentinel -2 or a positive rule number.
C17_ActionEncoding ==
  /\ lrgen.created =>
       \A a \in ActionEntries :
         a = ShiftAction \/ a = AcceptAction \/ (a > 0 /\ a \in RuleIds(gram))
  /\ lr0.built =>
       \A a \in LR0Entries :
         a = ShiftAction \/ a = AcceptAction \/ (a > 0 /\ a \in RuleIds(gram))


\* ------------------------------------------------------------------------
\* Observations on the cursor
\* ------------------------------------------------------------------------
IsMove == mv.op \in {"Up", "Down", "Sibling"}

\* C21: a move of the cursor never ends in a panic; a move that is not
\* possible returns false and leaves the cursor's node and stack as they were.
C21_MovesReportFailure ==
  IsMove =>
    /\ ~cu.panic
    /\ ~mv.ok => (cu.current = mv.before.current /\ cu.stack = mv.before.stack)


\* the ExitRule events of the last traversal
ExitEvents == {k \in 1..Len(td.log) : td.log[k].ev = "Exit"}

\* the children are traversed: the listener or the break mode says so
Descends == td.cont \/ td.breakmode = Continue

\* at the ExitRule of event e, rhsNodes[i].Value is the value returned by the
\* traversal of the i-th child
ValuesInPlace(e) ==
  \A q \in 1..Len(e.rhsnodes) :
    \E v \in 1..Len(e.visited) :
      /\ e.visited[v].child = e.rhsnodes[q].symbol
      /\ e.visited[v].value = e.rhsnodes[q].Value

\* C22: when ExitRule is called for a node of a traversal that descends,
\* rhsNodes[i].Value holds the value returned by the traversal of the node's
\* i-th child, for every i, in both directions.
C22_ChildValuesAtExit ==
  (td.done /\ Descends) => \A k \in ExitEvents : ValuesInPlace(td.log[k])


\* C29: an Up that follows a successful Down from node N returns the cursor
\* to N, and ExitRule of a TopDown visit is called for the symbol EnterRule
\* was called for.
C29_UpReturnsToDownNode ==
  /\ (mv.op = "Up" /\ mv.ok /\ mv.expect # 0) => cu.current = mv.expect
  /\ td.done =>
       \A k \in ExitEvents :
         fo.symbolNodes[td.log[k].node].Symbol = fo.symbolNodes[td.log[k].entered].Symbol


\* ------------------------------------------------------------------------
\* Observations on the derivation walk
\* ------------------------------------------------------------------------
\* the completed items of a choice that are viable: not tried before and not
\* starting left of the item walked
Viable(e) ==
  {e.R[k] : k \in {j \in 1..Len(e.R) : e.R[j].rule \notin e.trys
                                       /\ e.item.Origin <= e.R[j].Origin}}

\* the choices of the ambiguous case
Choices == {e \in wk : Len(e.R) > 1}

RuleLen(it) == Len(Rule(gram, it.rule).rhs)

\* a comes before b: longer rule, then lower rule index, then smaller origin
LongestRuleFirst(a, b) ==
  \/ RuleLen(a) > RuleLen(b)
  \/ RuleLen(a) = RuleLen(b) /\ a.rule < b.rule
  \/ RuleLen(a) = RuleLen(b) /\ a.rule = b.rule /\ a.Origin <= b.Origin

\* a comes before b: smaller origin (the longer span), then lower rule index
LongestSpanFirst(a, b) ==
  \/ a.Origin < b.Origin
  \/ a.Origin = b.Origin /\ a.rule <= b.rule

TokenAtAfterParse ==
  /\ tat.called
  /\ pc = "returned"
  /\ tat.after = parses
  /\ hasmode(optionStoreTokens)

\* C24: after a parse that stored the nread tokens it read, TokenAt(p) for
\* 1 <= p <= nread returns the p-th token read and does not index outside
\* the token buffer.
C24_TokenAtReturnsToken ==
  (TokenAtAfterParse /\ 1 <= tat.pos /\ tat.pos <= nread)
    => /\ ~tat.ret.panic
       /\ ~tat.ret.nil
       /\ tat.ret.token = NextToken(tat.pos)


\* ------------------------------------------------------------------------
\* C25: parser options
\* ------------------------------------------------------------------------
\* the value the last option of the name was passed with, dflt if none was
OptionValue(name, dflt) ==
  IF \E k \in 1..Len(opts) : opts[k].opt = name
  THEN opts[CHOOSE k \in 1..Len(opts) : opts[k].opt = name].b
  ELSE dflt

\* the first Parse with a scanner has returned
FirstParseReturned == pc = "returned" /\ parses = 1 /\ nread > 0

\* C25: after NewParser(ga, StoreTokens(b), GenerateTree(c)), in either order,
\* a Parse stores the tokens iff b and leaves a forest iff it accepts and c;
\* without options the tokens are stored and no forest is generated.
C25_OptionsTakeEffect ==
  (FirstParseReturned /\ Len(opts) \in {0, 2})
    => /\ (tokens # NewTokens) <=> OptionValue("StoreTokens", TRUE)
       /\ forest <=> (accept /\ OptionValue("GenerateTree", FALSE))


\* ------------------------------------------------------------------------
\* C26: the items of the state sets are sound
\* ------------------------------------------------------------------------
\* the words over Toks of length up to MaxLen derivable from each non-terminal
DerivOf == [g \in GrammarIds |-> DerivFix(g, [A \in NonTerms(g) |-> {}])]

\* the symbols syms[k..] derive the word w
RECURSIVE SeqDerives(_, _, _, _)
SeqDerives(g, syms, k, w) ==
  IF k > Len(syms) THEN w = <<>>
  ELSE \E m \in 0..Len(w) :
         /\ IF IsTerminal(syms[k]) THEN SubSeq(w, 1, m) = <<syms[k]>>
            ELSE SubSeq(w, 1, m) \in DerivOf[g][syms[k]]
         /\ SeqDerives(g, syms, k + 1, SubSeq(w, m + 1, Len(w)))

\* item, found in state set S_n, starts at or before n, and the symbols before
\* its dot derive the tokens Origin+1..n (toks[k + 1] is the k-th token read)
SoundItem(g, toks, item, n) ==
  /\ item.Origin <= n
  /\ n < Len(toks)
  /\ SeqDerives(g, Prefix(g, item), 1, SubSeq(toks, item.Origin + 2, n + 1))

\* C26: accept is true only for sentences of the grammar, and every item
\* [A -> alpha . beta, j] of a state set S_n has j <= n and alpha deriving the
\* tokens j+1..n, also where predict moved the dot over a nullable non-terminal.
C26_ItemsSound ==
  /\ (accept /\ pc \in {"returned", "build", "panic"}) => IsSentence
  /\ \A k \in 1..Len(states) :
       \A m \in 1..Len(states[k]) : SoundItem(gram, tokens, states[k][m], k - 1)

\* an accepting Parse has returned whose S_0 holds an item with the dot
\* behind a nullable non-terminal
C26_Witness ==
  /\ pc = "returned"
  /\ accept
  /\ Len(input) > 0
  /\ \E m \in 1..Len(states[1]) :
       /\ states[1][m].dot > 0
       /\ states[1][m].rule # 0
       /\ Len(Rule(gram, states[1][m].rule).rhs) > states[1][m].dot


\* ------------------------------------------------------------------------
\* C27: the derivation walk terminates
\* ------------------------------------------------------------------------
\* C27: the derivation walk of an accepted parse terminates, also for grammars
\* with ambiguity cycles: no walk is called with the arguments of a walk it
\* was called from, and no rule recorded in the ruleset is chosen again among
\* the completers of the same span.
C27_WalkTerminates ==
  /\ pc # "walking"
  /\ \A e \in Choices : e.child.rule \notin e.trys

\* a walk has ended in which a completer was passed over because its rule
\* had been tried for the span
C27_Witness ==
  /\ pc \in {"returned", "panic"}
  /\ accept
  /\ \E e \in Choices :
       /\ e.child.rule # -1
       /\ \E k \in 1..Len(e.R) :
            /\ e.R[k].rule \in e.trys
            /\ e.item.Origin <= e.R[k].Origin
            /\ LongestSpanFirst(e.R[k], e.child)


\* ------------------------------------------------------------------------
\* C28: a repeated Parse
\* ------------------------------------------------------------------------
\* what a Parse of the input leaves in a newly created parser: the verdict on
\* the input, one state set per token read behind S0, the tokens read behind
\* the empty slot
AsNewParser ==
  /\ accept <=> IsSentence
  /\ Len(states) = nread + 1
  /\ tokens = NewTokens \o [k \in 1..nread |-> NextToken(k)]

\* the n-th Parse call, given a scanner, has returned
ParseReturned(n) == pc = "returned" /\ parses = n /\ err # NoScannerError

\* C28: a second Parse on the same parser starts afresh: its result, its
\* state sets and its token buffer are those of a new parser given the input.
C28_SecondParseFresh == ParseReturned(2) => AsNewParser


\* ------------------------------------------------------------------------
\* C30: the span of a reduction
\* ------------------------------------------------------------------------
\* C30: a reduce by A -> X1 ... Xn pops the n entries of X1 ... Xn and pushes
\* for A the span from the start of X1 to the end of Xn; for n = 0 the span
\* pushed is empty at the position of the lookahead; no span pushed has
\* from > to or a wrapped-around position.
C30_ReduceSpan ==
  sred.done =>
    \E rhs \in {Rule(gram, sred.rule).rhs} :
      /\ Len(sred.popped) = Len(rhs)
      /\ \A k \in 1..Len(rhs) : sred.popped[k].symID = rhs[k]
      /\ Len(rhs) > 0 =>
           sred.pushed.span = <<sred.popped[1].span[1], sred.popped[Len(rhs)].span[2]>>
      /\ Len(rhs) = 0 => sred.pushed.span = <<sred.la[1], sred.la[1]>>
      /\ sred.pushed.span[1] <= sred.pushed.span[2]
      /\ sred.pushed.span[1] # U64Wrap
      /\ sred.pushed.span[2] # U64Wrap

====
